---- MODULE Spec2Model ----
(***************************************************************************)
(* Model of orgplan-todo: the orgplan markdown parser/mutator              *)
(* (tools/orgplan_parser.py), the bidirectional sync engine                *)
(* (tools/sync_engine.py), the Microsoft To Do and Google Tasks backends   *)
(* (tools/backends/*.py), the file lock (tools/locking.py) and the entry   *)
(* point (tools/sync.py).                                                  *)
(*                                                                         *)
(* Text is modelled at token level: a line is a sequence of tokens (the    *)
(* whitespace-separated words of the Python string), a multi-line string   *)
(* is a sequence of lines.  Python's Optional[x] is the empty sequence     *)
(* (None) or a one-element sequence <<x>>.                                 *)
(***************************************************************************)
EXTENDS FiniteSets, Integers, Sequences, TLC

VARIABLES
    lines,      \* OrgplanParser.lines: the in-memory line buffer
    file,       \* content of the orgplan file on disk (tokens with "\n")
    remote,     \* tasks stored by the remote service, in list order
    nextId,     \* number of ids the remote service has handed out
    backend,    \* "microsoft" or "google": which TaskBackend is in use
    dry_run,    \* SyncEngine.dry_run
    pc,         \* position inside sync_bidirectional
    run,        \* number of the current sync_bidirectional run
    otasks,     \* the OrgplanTask objects of the current pass
    omap,       \* ids/descriptions of otasks when the lookup maps were built
    ttasks,     \* the TaskItem list of the current pass
    idx,        \* index of the next task of the current pass
    stats,      \* statistics of the two passes of the current run
    calls,      \* calls made in the current run (backend and parser)
    last,       \* what the most recent step did
    hist,       \* what properties refer to: the state when the run started, the
                \* previous run's statistics, failed calls, tasks created and
                \* the tasks each pass has handled
    lock_file,  \* the lock file: None, or its modification time and writer
    clock,      \* time.time(), in seconds
    procs,      \* per process: its SyncLock and its position in the program
    stale_removed,  \* whether an acquire has removed a stale lock file
    mapped,     \* the values a chain of calls of the mapping methods went through
    request     \* one call of _make_request: its retry loop and its outcome

syncVars == <<lines, file, remote, nextId, backend, dry_run, pc, run, otasks,
              omap, ttasks, idx, stats, calls, last, hist>>
lockVars == <<lock_file, clock, procs, stale_removed>>
mapVars == <<mapped>>
requestVars == <<request>>
vars == <<syncVars, lockVars, mapVars, requestVars>>

-----------------------------------------------------------------------------
(* Python values *)

None == <<>>
Some(x) == <<x>>
Val(o) == o[1]

\* Python truthiness of an Optional[str] or Optional[date] (no string of the
\* model is empty) and of an Optional[int]
Truthy(o) == o # None
TruthyInt(o) == o # None /\ Val(o) # 0

Max(a, b) == IF a >= b THEN a ELSE b

RECURSIVE Flatten(_)
\* the tokens of a multi-line text in reading order ("\n" is whitespace)
Flatten(ls) == IF ls = <<>> THEN <<>> ELSE Head(ls) \o Flatten(Tail(ls))

InsertAt(s, pos, x) == \* list.insert(pos, x) with 0-based pos <= len
    SubSeq(s, 1, pos) \o <<x>> \o SubSeq(s, pos + 1, Len(s))

-----------------------------------------------------------------------------
(* Tokens recognised by the regular expressions of OrgplanParser *)

\* STATUS_PATTERN = \[(DONE|PENDING|DELEGATED)\]
StatusKeywords == {"DONE", "PENDING", "DELEGATED"}
StatusToken(k) ==
    CASE k = "DONE" -> "[DONE]"
      [] k = "PENDING" -> "[PENDING]"
      [] k = "DELEGATED" -> "[DELEGATED]"
      [] k = "CANCELED" -> "[CANCELED]"
IsStatusTok(t) == \E k \in StatusKeywords : t = StatusToken(k)
StatusOfTok(t) == CHOOSE k \in StatusKeywords : t = StatusToken(k)

\* PRIORITY_PATTERN = #p(\d+)
PriorityTokens == <<"#p1", "#p2", "#p3", "#p4">>
IsPriorityTok(t) == \E n \in DOMAIN PriorityTokens : PriorityTokens[n] = t
PriorityOfTok(t) == CHOOSE n \in DOMAIN PriorityTokens : PriorityTokens[n] = t

\* TIME_ESTIMATE_PATTERN, BLOCKED_PATTERN, CUSTOM_TAG_PATTERN = #\w+
OtherTagTokens == {"#2h", "#blocked", "#tag"}
IsTagTok(t) == IsPriorityTok(t) \/ t \in OtherTagTokens

\* TIMESTAMP_PATTERN = <YYYY-MM-DD[ day][ HH:MM]>; dates are numbered 1, 2, ...
DateTokens == <<"<2025-06-15>", "<2025-06-20>", "<2025-06-30>">>
\* a timestamp the pattern matches although it is no calendar date
BadDateToken == "<2025-13-40>"
IsTsTok(t) == t = BadDateToken \/ \E d \in DOMAIN DateTokens : DateTokens[d] = t
\* _extract_datetime followed by _coerce_date: None for an invalid date
DateOfTok(t) ==
    IF \E d \in DOMAIN DateTokens : DateTokens[d] = t
    THEN Some(CHOOSE d \in DOMAIN DateTokens : DateTokens[d] = t)
    ELSE None
\* datetime.date.isoformat() inside angle brackets
IsoToken(d) == DateTokens[d]

\* MS_TODO_ID_PATTERN / GOOGLE_TASKS_ID_PATTERN
MarkerName(attr) == IF attr = "ms_todo_id" THEN "ms-todo-id:" ELSE "google-tasks-id:"
IdMarker(attr, id) == <<"<!--", MarkerName(attr), id, "-->">>
MarkerAt(line, i, attr) ==
    /\ i + 3 <= Len(line)
    /\ line[i] = "<!--" /\ line[i + 1] = MarkerName(attr) /\ line[i + 3] = "-->"
\* pattern.search(line)
HasMarker(line, attr) == \E i \in 1..Len(line) : MarkerAt(line, i, attr)
MarkerId(line, attr) ==
    line[(CHOOSE i \in 1..Len(line) :
            /\ MarkerAt(line, i, attr)
            /\ \A j \in 1..(i - 1) : ~MarkerAt(line, j, attr)) + 2]
IdAttrs == {"ms_todo_id", "google_tasks_id"}
HasAnyMarker(line) == \E a \in IdAttrs : HasMarker(line, a)

\* line.startswith("# ")
IsHeading(line) == Len(line) >= 2 /\ line[1] = "#"
TodoHeading == <<"#", "TODO", "List">>
\* line.strip().startswith("- ")
IsTaskLine(line) == Len(line) >= 2 /\ line[1] = "-"
\* line.strip() == ""
IsBlank(line) == line = <<>>

-----------------------------------------------------------------------------
(* OrgplanParser: timestamps and due markers *)

RECURSIVE PrefixedDates(_, _, _)
\* _parse_timestamps: the dates of "kw <date>" expressions of text, in order
PrefixedDates(text, kw, i) ==
    IF i >= Len(text) THEN <<>>
    ELSE (IF text[i] = kw /\ IsTsTok(text[i + 1]) THEN DateOfTok(text[i + 1]) ELSE <<>>)
         \o PrefixedDates(text, kw, i + 1)

RECURSIVE BareDates(_, _)
\* _parse_timestamps: the timestamps that are not part of a DEADLINE:/SCHEDULED:
\* expression (prefixed_starts)
BareDates(text, i) ==
    IF i > Len(text) THEN <<>>
    ELSE (IF /\ IsTsTok(text[i])
             /\ ~(i > 1 /\ text[i - 1] \in {"DEADLINE:", "SCHEDULED:"})
          THEN DateOfTok(text[i]) ELSE <<>>)
         \o BareDates(text, i + 1)

_parse_timestamps(text) ==
    [deadlines |-> PrefixedDates(text, "DEADLINE:", 1),
     scheduled |-> PrefixedDates(text, "SCHEDULED:", 1),
     timestamps |-> BareDates(text, 1)]

_select_due_date(ts) ==
    IF ts.deadlines # <<>> THEN Some(ts.deadlines[1])
    ELSE IF ts.scheduled # <<>> THEN Some(ts.scheduled[1])
    ELSE IF ts.timestamps # <<>> THEN Some(ts.timestamps[1])
    ELSE None

\* DEADLINE_PATTERN.search(text) / SCHEDULED_PATTERN.search(text)
HasPrefixed(text, kw) ==
    \E i \in 1..(Len(text) - 1) : text[i] = kw /\ IsTsTok(text[i + 1])

_extract_due_from_text(text) ==
    [due_date |-> _select_due_date(_parse_timestamps(text)),
     due_marker_style |->
        IF HasPrefixed(text, "DEADLINE:") THEN Some("deadline")
        ELSE IF HasPrefixed(text, "SCHEDULED:") THEN Some("scheduled")
        ELSE IF \E i \in 1..Len(text) : IsTsTok(text[i]) THEN Some("plain")
        ELSE None]

RECURSIVE SubPrefixed(_, _)
\* PATTERN.sub("", text) for DEADLINE_PATTERN / SCHEDULED_PATTERN
SubPrefixed(text, kw) ==
    IF text = <<>> THEN <<>>
    ELSE IF Len(text) >= 2 /\ text[1] = kw /\ IsTsTok(text[2])
         THEN SubPrefixed(SubSeq(text, 3, Len(text)), kw)
         ELSE <<Head(text)>> \o SubPrefixed(Tail(text), kw)

NotTs(t) == ~IsTsTok(t)

_strip_due_markers(text) ==
    SelectSeq(SubPrefixed(SubPrefixed(text, "DEADLINE:"), "SCHEDULED:"), NotTs)

-----------------------------------------------------------------------------
(* OrgplanParser: task lines *)

OrgplanTask(description, status, priority, due_date, due_marker_style) ==
    [description |-> description, status |-> status, priority |-> priority,
     due_date |-> due_date, due_marker_style |-> due_marker_style,
     detail_has_deadline_marker |-> FALSE, raw_line |-> <<>>,
     detail_section |-> <<>>, ms_todo_id |-> None, google_tasks_id |-> None,
     line_number |-> 0]

NotStatusOrTag(t) == ~IsStatusTok(t) /\ ~IsTagTok(t)

FirstWhere(s, set) == s[CHOOSE i \in set : \A j \in set : i <= j]

\* the regex branch (parse_title_parts is None); an empty result is "no task"
_parse_task_line(line, line_number) ==
    LET content == Tail(line)
        due == _extract_due_from_text(content)
        st == {i \in 1..Len(content) : IsStatusTok(content[i])}
        pr == {i \in 1..Len(content) : IsPriorityTok(content[i])}
        status == IF st = {} THEN None ELSE Some(StatusOfTok(FirstWhere(content, st)))
        priority == IF pr = {} THEN None ELSE Some(PriorityOfTok(FirstWhere(content, pr)))
        description == _strip_due_markers(SelectSeq(content, NotStatusOrTag))
    IN IF description = <<>> THEN <<>>
       ELSE <<[OrgplanTask(description, status, priority, due.due_date,
                           due.due_marker_style)
               EXCEPT !.raw_line = line, !.line_number = line_number]>>

_format_task_line(task) ==
    <<"-">>
    \o (IF Truthy(task.status) THEN <<StatusToken(Val(task.status))>> ELSE <<>>)
    \o (IF TruthyInt(task.priority) THEN <<PriorityTokens[Val(task.priority)]>> ELSE <<>>)
    \o task.description
    \o (IF Truthy(task.due_date) /\ Truthy(task.due_marker_style)
        THEN (IF Val(task.due_marker_style) = "deadline" THEN <<"DEADLINE:">>
              ELSE IF Val(task.due_marker_style) = "scheduled" THEN <<"SCHEDULED:">>
              ELSE <<>>) \o <<IsoToken(Val(task.due_date))>>
        ELSE <<>>)

-----------------------------------------------------------------------------
(* OrgplanParser: parsing a document *)

RECURSIVE ScanTasks(_, _, _)
\* the loop of parse_tasks from (1-based) line i on
ScanTasks(ls, i, in_todo_section) ==
    IF i > Len(ls) THEN <<>>
    ELSE IF ls[i] = TodoHeading THEN ScanTasks(ls, i + 1, TRUE)
    ELSE IF in_todo_section /\ IsHeading(ls[i]) THEN <<>>
    ELSE IF in_todo_section /\ IsTaskLine(ls[i])
         THEN _parse_task_line(ls[i], i) \o ScanTasks(ls, i + 1, in_todo_section)
    ELSE ScanTasks(ls, i + 1, in_todo_section)

SectionHeader(description) == <<"#">> \o description

RECURSIVE SectionLines(_, _, _, _)
\* the loop of _parse_detail_section: the lines collected into section_lines
SectionLines(ls, header, i, in_section) ==
    IF i > Len(ls) THEN <<>>
    ELSE IF ls[i] = header THEN SectionLines(ls, header, i + 1, TRUE)
    ELSE IF in_section
         THEN (IF IsHeading(ls[i]) THEN <<>>
               ELSE <<ls[i]>> \o SectionLines(ls, header, i + 1, TRUE))
    ELSE SectionLines(ls, header, i + 1, FALSE)

RECURSIVE StripLines(_)
\* str.strip() of a multi-line text: blank lines at both ends go
StripLines(ls) ==
    IF ls = <<>> THEN <<>>
    ELSE IF IsBlank(Head(ls)) THEN StripLines(Tail(ls))
    ELSE IF IsBlank(ls[Len(ls)]) THEN StripLines(SubSeq(ls, 1, Len(ls) - 1))
    ELSE ls

_parse_detail_section(ls, task) ==
    LET section_lines == SectionLines(ls, SectionHeader(task.description), 1, FALSE)
        detail_section == StripLines(section_lines)
        text == Flatten(detail_section)
        ts == _parse_timestamps(text)
    IN IF section_lines = <<>> THEN task
       ELSE [task EXCEPT
               !.detail_section = detail_section,
               !.ms_todo_id = IF HasMarker(text, "ms_todo_id")
                              THEN Some(MarkerId(text, "ms_todo_id")) ELSE @,
               !.google_tasks_id = IF HasMarker(text, "google_tasks_id")
                                   THEN Some(MarkerId(text, "google_tasks_id")) ELSE @,
               !.detail_has_deadline_marker = ts.deadlines # <<>> \/ ts.scheduled # <<>>,
               !.due_date = IF @ = None THEN _select_due_date(ts) ELSE @]

parse_tasks(ls) ==
    LET tasks == ScanTasks(ls, 1, FALSE)
    IN [k \in 1..Len(tasks) |-> _parse_detail_section(ls, tasks[k])]

-----------------------------------------------------------------------------
(* OrgplanParser: the file *)

RECURSIVE JoinLines(_)
\* "\n".join(lines)
JoinLines(ls) ==
    IF ls = <<>> THEN <<>>
    ELSE IF Len(ls) = 1 THEN ls[1]
    ELSE ls[1] \o <<"\n">> \o JoinLines(Tail(ls))

\* save(): the joined lines and, unless there are no lines, a final newline
SaveText(ls) == JoinLines(ls) \o (IF ls # <<>> THEN <<"\n">> ELSE <<>>)

RECURSIVE SplitLines(_, _)
\* str.splitlines(): cur is the line being read
SplitLines(text, cur) ==
    IF text = <<>> THEN (IF cur = <<>> THEN <<>> ELSE <<cur>>)
    ELSE IF Head(text) = "\n" THEN <<cur>> \o SplitLines(Tail(text), <<>>)
    ELSE SplitLines(Tail(text), Append(cur, Head(text)))

\* load(): the lines of the file
LoadLines(text) == SplitLines(text, <<>>)

-----------------------------------------------------------------------------
(* OrgplanParser: mutators.  Each returns the new line buffer and the       *)
(* mutated task object.                                                     *)

\* RewriteLine without the return for a line_number past the end: the line
\* is appended
RewriteLineAppending(ls, old, new) ==
    IF old.line_number - 1 >= Len(ls)
    THEN [lines |-> Append(ls, _format_task_line(new)), task |-> new]
    ELSE [lines |-> [ls EXCEPT ![old.line_number] = _format_task_line(new)],
          task |-> [new EXCEPT !.raw_line = _format_task_line(new)]]

\* the common body of the four update_task_* methods, given the task with
\* the one field already assigned
RewriteLine(ls, old, new) ==
    IF old.line_number - 1 >= Len(ls) THEN [lines |-> ls, task |-> old]
    ELSE LET new_line == _format_task_line(new)
             \* a negative Python index counts from the end of the list
             at == IF old.line_number >= 1 THEN old.line_number
                   ELSE Len(ls) + old.line_number
         IN [lines |-> [ls EXCEPT ![at] = new_line],
             task |-> [new EXCEPT !.raw_line = new_line]]

update_task_status(ls, task, new_status) ==
    RewriteLine(ls, task, [task EXCEPT !.status = new_status])

update_task_description(ls, task, new_description) ==
    RewriteLine(ls, task, [task EXCEPT !.description = new_description])

update_task_priority(ls, task, new_priority) ==
    RewriteLine(ls, task, [task EXCEPT !.priority = new_priority])

update_task_due_date(ls, task, new_due_date, due_marker_style) ==
    RewriteLine(ls, task,
        [task EXCEPT !.due_date = new_due_date,
                     !.due_marker_style = IF Truthy(new_due_date)
                                          THEN Some(due_marker_style) ELSE None])

\* add_task inserting directly after the heading whatever the section holds
TodoSectionEndAtHeading(ls, i, todo_section_end) ==
    IF \E j \in 1..Len(ls) : ls[j] = TodoHeading
    THEN CHOOSE j \in 1..Len(ls) : ls[j] = TodoHeading /\ \A h \in 1..(j - 1) : ls[h] # TodoHeading
    ELSE 0

RECURSIVE TodoSectionEnd(_, _, _)
\* the loop of add_task: the 0-based insert position
TodoSectionEnd(ls, i, todo_section_end) ==
    IF i > Len(ls) THEN todo_section_end
    ELSE IF ls[i] = TodoHeading THEN TodoSectionEnd(ls, i + 1, i)
    ELSE IF todo_section_end > 0 /\ IsHeading(ls[i]) THEN todo_section_end
    ELSE IF todo_section_end > 0 /\ IsTaskLine(ls[i]) THEN TodoSectionEnd(ls, i + 1, i)
    ELSE TodoSectionEnd(ls, i + 1, todo_section_end)

add_task(ls, description, status, priority, due_date, due_marker_style) ==
    LET task == OrgplanTask(description, status, priority, due_date, due_marker_style)
        task_line == _format_task_line(task)
        todo_section_end == TodoSectionEnd(ls, 1, 0)
    IN [lines |-> InsertAt(ls, todo_section_end, task_line),
        task |-> [task EXCEPT !.raw_line = task_line,
                              !.line_number = todo_section_end + 1]]

\* 1-based index of the first line equal to the header, 0 when there is none
SectionStart(ls, header) ==
    IF \E i \in 1..Len(ls) : ls[i] = header
    THEN CHOOSE i \in 1..Len(ls) : ls[i] = header /\ \A j \in 1..(i - 1) : ls[j] # header
    ELSE 0

\* FindMarkerLine taking the marker of any backend for the one looked for
FindMarkerLineOfAny(ls, i, attr) ==
    LET hits == {j \in i..Len(ls) : /\ HasAnyMarker(ls[j])
                                    /\ \A h \in i..j : ~IsHeading(ls[h])}
    IN IF hits = {} THEN 0 ELSE CHOOSE j \in hits : \A h \in hits : j <= h

RECURSIVE FindMarkerLine(_, _, _)
\* add_detail_section: the line of the section (searched from line i) that
\* holds the backend's marker, 0 when none does
FindMarkerLine(ls, i, attr) ==
    IF i > Len(ls) \/ IsHeading(ls[i]) THEN 0
    ELSE IF HasMarker(ls[i], attr) THEN i
    ELSE FindMarkerLine(ls, i + 1, attr)

RECURSIVE MarkerInsertPos(_, _, _)
\* add_detail_section: the 0-based position after the section's leading
\* marker lines (blank lines between them are passed over)
MarkerInsertPos(ls, i, insert_pos) ==
    IF i > Len(ls) \/ IsHeading(ls[i]) THEN insert_pos
    ELSE IF HasAnyMarker(ls[i]) THEN MarkerInsertPos(ls, i + 1, i)
    ELSE IF IsBlank(ls[i]) THEN MarkerInsertPos(ls, i + 1, insert_pos)
    ELSE insert_pos

SetId(task, attr, id) ==
    IF attr = "ms_todo_id" THEN [task EXCEPT !.ms_todo_id = Some(id)]
    ELSE [task EXCEPT !.google_tasks_id = Some(id)]

\* add_detail_section that writes nothing
add_detail_section_nothing(ls, task, attr, id_value) == [lines |-> ls, task |-> task]

\* add_detail_section(task, <attr>=id_value) with one keyword argument
add_detail_section(ls, task, attr, id_value) ==
    LET section_header == SectionHeader(task.description)
        found == SectionStart(ls, section_header)
        ls1 == IF found = 0 THEN ls \o <<<<>>, section_header, <<>>>> ELSE ls
        section_start == IF found = 0 THEN Len(ls1) - 1 ELSE found
        at == FindMarkerLine(ls1, section_start + 1, attr)
    IN IF ~Truthy(id_value) \/ attr \notin IdAttrs THEN [lines |-> ls1, task |-> task]
       ELSE IF at # 0
       THEN [lines |-> [ls1 EXCEPT ![at] = IdMarker(attr, Val(id_value))],
             task |-> SetId(task, attr, Val(id_value))]
       ELSE [lines |-> InsertAt(ls1, MarkerInsertPos(ls1, section_start + 1, section_start),
                                IdMarker(attr, Val(id_value))),
             task |-> SetId(task, attr, Val(id_value))]

-----------------------------------------------------------------------------
(* Backends.  The remote service keeps, per task, the record                *)
(* [id, title, status, importance, body, due_date]; the adapters decide     *)
(* which of these fields are written and read.                              *)

TaskItem(id, title, status, importance, body, due_date) ==
    [id |-> id, title |-> title, status |-> status, importance |-> importance,
     body |-> body, due_date |-> due_date]

\* truthiness of an Optional[str] holding a multi-line text ("" is <<>>)
TruthyText(o) == o # None /\ Val(o) # <<>>

id_marker_prefix(kind) == IF kind = "microsoft" THEN "ms-todo-id" ELSE "google-tasks-id"
\* id_marker_prefix.replace("-", "_")
IdAttr(kind) == IF id_marker_prefix(kind) = "ms-todo-id" THEN "ms_todo_id" ELSE "google_tasks_id"
\* supports_priority of a backend that always claims priority support
supports_priority_always(kind) == TRUE
supports_priority(kind) == kind = "microsoft"

\* MicrosoftTodoBackend._api_to_task_item: no due date is read
MsApiToTaskItem(api) ==
    TaskItem(api.id, api.title,
             IF api.status = "completed" THEN "completed" ELSE "active",
             IF api.importance = None THEN Some("normal") ELSE api.importance,
             api.body, None)

\* GoogleTasksBackend._api_to_task_item: no importance is read
GoogleApiToTaskItem(api) ==
    TaskItem(api.id, api.title,
             IF api.status = "completed" THEN "completed" ELSE "active",
             None, api.body, api.due_date)

_api_to_task_item(kind, api) ==
    IF kind = "microsoft" THEN MsApiToTaskItem(api) ELSE GoogleApiToTaskItem(api)

get_tasks(kind, store) == [k \in 1..Len(store) |-> _api_to_task_item(kind, store[k])]

\* MicrosoftTodoBackend.create_task: title, importance, status and body are
\* posted; the due date is not
MsCreated(task, id) ==
    [id |-> id, title |-> task.title,
     importance |-> IF Truthy(task.importance) THEN task.importance ELSE Some("normal"),
     status |-> IF task.status = "completed" THEN "completed" ELSE "active",
     body |-> IF TruthyText(task.body) THEN task.body ELSE None,
     due_date |-> None]

\* GoogleTasksBackend.create_task: title, status, notes and due are inserted
GoogleCreated(task, id) ==
    [id |-> id, title |-> task.title, importance |-> None,
     status |-> IF task.status = "completed" THEN "completed" ELSE "active",
     body |-> IF TruthyText(task.body) THEN task.body ELSE None,
     due_date |-> IF Truthy(task.due_date) THEN task.due_date ELSE None]

create_task(kind, store, task, id) ==
    Append(store, IF kind = "microsoft" THEN MsCreated(task, id) ELSE GoogleCreated(task, id))

\* MicrosoftTodoBackend.update_task: a PATCH of title, importance, status and
\* body, each only when it is not None; the due date is never sent
MsPatched(api, task) ==
    [api EXCEPT
       !.title = task.title,
       !.importance = IF task.importance # None THEN task.importance ELSE @,
       !.status = IF task.status = "completed" THEN "completed"
                  ELSE IF task.status = "active" THEN "active" ELSE @,
       !.body = IF task.body # None THEN task.body ELSE @]

\* GoogleTasksBackend.update_task: tasks().update replaces the task by the
\* body sent: id, title, status, notes when not None, due when set
GoogleReplaced(api, task) ==
    [id |-> api.id, title |-> task.title, importance |-> None,
     status |-> IF task.status = "completed" THEN "completed" ELSE "active",
     body |-> IF task.body # None THEN task.body ELSE None,
     due_date |-> IF Truthy(task.due_date) THEN task.due_date ELSE None]

update_task(kind, store, task) ==
    [k \in 1..Len(store) |->
        IF store[k].id = task.id
        THEN (IF kind = "microsoft" THEN MsPatched(store[k], task)
              ELSE GoogleReplaced(store[k], task))
        ELSE store[k]]

\* ids the remote service hands out, in order
NewIds == <<"n1", "n2", "n3", "n4">>

-----------------------------------------------------------------------------
(* SyncEngine: mappings and matching *)

_map_priority_to_importance(priority) ==
    IF priority = None THEN "normal"
    ELSE IF Val(priority) = 1 THEN "high"
    ELSE IF Val(priority) = 2 THEN "normal"
    ELSE "low"

\* _map_orgplan_status_to_todo taking CANCELED for an open task
_map_orgplan_status_to_todo_no_canceled(status) ==
    IF status \in {Some("DONE"), Some("DELEGATED")} THEN "completed" ELSE "active"

_map_orgplan_status_to_todo(status) ==
    IF status \in {Some("DONE"), Some("DELEGATED"), Some("CANCELED")}
    THEN "completed" ELSE "active"

\* _map_importance_to_priority without its branch for "low"
_map_importance_to_priority_no_low(importance) ==
    IF importance = Some("high") THEN Some(1)
    ELSE IF importance = Some("normal") THEN Some(2)
    ELSE None

_map_importance_to_priority(importance) ==
    IF importance = Some("high") THEN Some(1)
    ELSE IF importance = Some("normal") THEN Some(2)
    ELSE IF importance = Some("low") THEN Some(3)
    ELSE None

_map_todo_status_to_orgplan(status) ==
    IF status = "completed" THEN Some("DONE") ELSE None

NotMarkerLine(line) == ~HasAnyMarker(line)

_extract_notes_from_detail_section(detail_section) ==
    LET notes == StripLines(SelectSeq(detail_section, NotMarkerLine))
    IN IF notes = <<>> THEN None ELSE Some(notes)

\* getattr(orgplan_task, backend_id_attr, None)
BackendId(task, kind) ==
    IF IdAttr(kind) = "ms_todo_id" THEN task.ms_todo_id ELSE task.google_tasks_id

\* a dict built from a list: the last entry with a key wins; 0 when absent
LastIndex(set) == IF set = {} THEN 0 ELSE CHOOSE i \in set : \A j \in set : j <= i
TodoById(todo_tasks, id) == LastIndex({k \in 1..Len(todo_tasks) : todo_tasks[k].id = id})
TodoByTitle(todo_tasks, title) ==
    LastIndex({k \in 1..Len(todo_tasks) : todo_tasks[k].title = title})

\* _find_matching_todo_task trying the title before the id
_find_matching_todo_task_title_first(orgplan_task, todo_tasks, kind) ==
    LET backend_id == BackendId(orgplan_task, kind)
    IN IF TodoByTitle(todo_tasks, orgplan_task.description) # 0
       THEN TodoByTitle(todo_tasks, orgplan_task.description)
       ELSE IF Truthy(backend_id) THEN TodoById(todo_tasks, Val(backend_id))
       ELSE 0

\* index into todo_tasks of the match, 0 for None
_find_matching_todo_task(orgplan_task, todo_tasks, kind) ==
    LET backend_id == BackendId(orgplan_task, kind)
    IN IF Truthy(backend_id) /\ TodoById(todo_tasks, Val(backend_id)) # 0
       THEN TodoById(todo_tasks, Val(backend_id))
       ELSE TodoByTitle(todo_tasks, orgplan_task.description)

\* the lookup maps of sync_todo_to_orgplan are built once, from the ids and
\* descriptions the tasks have at that moment (keys), before any is mutated
MapKeys(orgplan_tasks, kind) ==
    [k \in 1..Len(orgplan_tasks) |->
        [id |-> BackendId(orgplan_tasks[k], kind),
         description |-> orgplan_tasks[k].description]]
OrgplanById(keys, id) ==
    LastIndex({k \in 1..Len(keys) : Truthy(keys[k].id) /\ Val(keys[k].id) = id})
OrgplanByTitle(keys, title) ==
    LastIndex({k \in 1..Len(keys) : keys[k].description = title})

\* index into orgplan_tasks of the match, 0 for None
_find_matching_orgplan_task(todo_task, keys) ==
    IF OrgplanById(keys, todo_task.id) # 0 THEN OrgplanById(keys, todo_task.id)
    ELSE OrgplanByTitle(keys, todo_task.title)

-----------------------------------------------------------------------------
(* OrgplanParser.update_detail_section_body is called by the engine but is  *)
(* not among the parser's methods in tools/orgplan_parser.py; it is         *)
(* modelled from the specification of the detail-section upsert: the        *)
(* section is appended when missing, marker lines stay as they are and in   *)
(* place, the other lines of the section are replaced by the notes.         *)

RECURSIVE SectionEnd(_, _)
\* 1-based index of the last line of the section whose first body line is i
SectionEnd(ls, i) ==
    IF i > Len(ls) \/ IsHeading(ls[i]) THEN i - 1 ELSE SectionEnd(ls, i + 1)

update_detail_section_body(ls, task, body) ==
    LET section_header == SectionHeader(task.description)
        found == SectionStart(ls, section_header)
        ls1 == IF found = 0 THEN ls \o <<<<>>, section_header, <<>>>> ELSE ls
        section_start == IF found = 0 THEN Len(ls1) - 1 ELSE found
        section_end == SectionEnd(ls1, section_start + 1)
        markers == SelectSeq(SubSeq(ls1, section_start + 1, section_end), HasAnyMarker)
    IN [lines |-> SubSeq(ls1, 1, section_start) \o markers \o <<<<>>>> \o body
                  \o <<<<>>>> \o SubSeq(ls1, section_end + 1, Len(ls1)),
        task |-> task]

-----------------------------------------------------------------------------
(* SyncEngine: reconciling one pair.  Each operator returns what the method *)
(* returned (ret), the line buffer, the task object and the remote store    *)
(* after it, the parser and backend methods it called, and whether it       *)
(* raised.                                                                  *)

\* TodoUpdates comparing the local status keyword itself, not its mapping
TodoUpdatesUnmappedStatus(orgplan_task, todo_task, kind) ==
    LET orgplan_notes == _extract_notes_from_detail_section(orgplan_task.detail_section)
        remote_body == IF TruthyText(todo_task.body)
                       THEN Some(StripLines(Val(todo_task.body))) ELSE None
    IN (IF orgplan_task.description # todo_task.title THEN {"title"} ELSE {})
       \cup (IF orgplan_task.status # Some(todo_task.status) THEN {"status"} ELSE {})
       \cup (IF /\ supports_priority(kind)
                /\ Some(_map_priority_to_importance(orgplan_task.priority))
                     # todo_task.importance
             THEN {"importance"} ELSE {})
       \cup (IF /\ Truthy(orgplan_task.due_date)
                /\ orgplan_task.due_date # todo_task.due_date
             THEN {"due_date"} ELSE {})
       \cup (IF /\ (orgplan_notes # None \/ TruthyText(remote_body))
                /\ orgplan_notes # remote_body
             THEN {"body"} ELSE {})

\* the keys of the updates dict of _update_todo_task
TodoUpdates(orgplan_task, todo_task, kind) ==
    LET orgplan_notes == _extract_notes_from_detail_section(orgplan_task.detail_section)
        remote_body == IF TruthyText(todo_task.body)
                       THEN Some(StripLines(Val(todo_task.body))) ELSE None
    IN (IF orgplan_task.description # todo_task.title THEN {"title"} ELSE {})
       \cup (IF _map_orgplan_status_to_todo(orgplan_task.status) # todo_task.status
             THEN {"status"} ELSE {})
       \cup (IF /\ supports_priority(kind)
                /\ Some(_map_priority_to_importance(orgplan_task.priority))
                     # todo_task.importance
             THEN {"importance"} ELSE {})
       \cup (IF /\ Truthy(orgplan_task.due_date)
                /\ orgplan_task.due_date # todo_task.due_date
             THEN {"due_date"} ELSE {})
       \cup (IF /\ (orgplan_notes # None \/ TruthyText(remote_body))
                /\ orgplan_notes # remote_body
             THEN {"body"} ELSE {})

\* UpdatedTaskItem that never takes the due date from the updates
UpdatedTaskItemKeepingDue(orgplan_task, todo_task, updates) ==
    TaskItem(todo_task.id,
        IF "title" \in updates THEN orgplan_task.description ELSE todo_task.title,
        IF "status" \in updates THEN _map_orgplan_status_to_todo(orgplan_task.status)
        ELSE todo_task.status,
        IF "importance" \in updates
        THEN Some(_map_priority_to_importance(orgplan_task.priority))
        ELSE todo_task.importance,
        IF "body" \in updates
        THEN _extract_notes_from_detail_section(orgplan_task.detail_section)
        ELSE todo_task.body,
        todo_task.due_date)

\* the TaskItem _update_todo_task hands to backend.update_task
UpdatedTaskItem(orgplan_task, todo_task, updates) ==
    TaskItem(todo_task.id,
        IF "title" \in updates THEN orgplan_task.description ELSE todo_task.title,
        IF "status" \in updates THEN _map_orgplan_status_to_todo(orgplan_task.status)
        ELSE todo_task.status,
        IF "importance" \in updates
        THEN Some(_map_priority_to_importance(orgplan_task.priority))
        ELSE todo_task.importance,
        IF "body" \in updates
        THEN _extract_notes_from_detail_section(orgplan_task.detail_section)
        ELSE todo_task.body,
        IF "due_date" \in updates THEN orgplan_task.due_date ELSE todo_task.due_date)

Outcome(ret, ls, task, store, called, raised) ==
    [ret |-> ret, lines |-> ls, task |-> task, store |-> store, called |-> called,
     raised |-> raised]

\* ok: whether backend.update_task succeeds (it raises otherwise)
_update_todo_task(ls, store, orgplan_task, todo_task, kind, dry, ok) ==
    LET updates == TodoUpdates(orgplan_task, todo_task, kind)
        updated_task == UpdatedTaskItem(orgplan_task, todo_task, updates)
        linked == Truthy(BackendId(orgplan_task, kind))
        added == add_detail_section(ls, orgplan_task, IdAttr(kind), Some(todo_task.id))
    IN IF updates = {} THEN Outcome(FALSE, ls, orgplan_task, store, {}, FALSE)
       ELSE IF dry THEN Outcome(TRUE, ls, orgplan_task, store, {}, FALSE)
       ELSE IF ~ok THEN Outcome(FALSE, ls, orgplan_task, store, {"update_task"}, FALSE)
       ELSE IF linked
       THEN Outcome(TRUE, ls, orgplan_task, update_task(kind, store, updated_task),
                    {"update_task"}, FALSE)
       ELSE Outcome(TRUE, added.lines, added.task, update_task(kind, store, updated_task),
                    {"update_task", "add_detail_section"}, FALSE)

\* the TaskItem _create_todo_task hands to backend.create_task
NewTaskItem(orgplan_task) ==
    TaskItem("", orgplan_task.description, "active",
             Some(_map_priority_to_importance(orgplan_task.priority)),
             _extract_notes_from_detail_section(orgplan_task.detail_section),
             orgplan_task.due_date)

\* _create_todo_task without its dry-run return
_create_todo_task_not_dry(ls, store, orgplan_task, kind, dry, ok, id) ==
    LET added == add_detail_section(ls, orgplan_task, IdAttr(kind), Some(id))
    IN IF ~ok THEN Outcome(FALSE, ls, orgplan_task, store, {"create_task"}, FALSE)
       ELSE Outcome(TRUE, added.lines, added.task,
                    create_task(kind, store, NewTaskItem(orgplan_task), id),
                    {"create_task", "add_detail_section"}, FALSE)

\* ok: whether backend.create_task succeeds; id: the id the service assigns
_create_todo_task(ls, store, orgplan_task, kind, dry, ok, id) ==
    LET added == add_detail_section(ls, orgplan_task, IdAttr(kind), Some(id))
    IN IF dry THEN Outcome(TRUE, ls, orgplan_task, store, {}, FALSE)
       ELSE IF ~ok THEN Outcome(FALSE, ls, orgplan_task, store, {"create_task"}, FALSE)
       ELSE Outcome(TRUE, added.lines, added.task,
                    create_task(kind, store, NewTaskItem(orgplan_task), id),
                    {"create_task", "add_detail_section"}, FALSE)

\* one conditional parser call of _update_orgplan_task: st is the record
\* [lines, task, called, changes] threaded through the method
Step(st, cond, dry, name, res) ==
    IF ~cond THEN st
    ELSE IF dry THEN [st EXCEPT !.changes = @ \cup {name}]
    ELSE [lines |-> res.lines, task |-> res.task, called |-> st.called \cup {name},
          changes |-> st.changes \cup {name}]

TitleDiffers(task, todo_task) == todo_task.title # task.description

StatusDiffers(task, todo_task) ==
    _map_todo_status_to_orgplan(todo_task.status) # task.status

PriorityDiffers(task, todo_task, kind) ==
    /\ supports_priority(kind)
    /\ _map_importance_to_priority(todo_task.importance) # task.priority

\* DueDateDiffers without the detail_has_deadline_marker test
DueDateDiffersUnguarded(task, todo_task) ==
    Truthy(todo_task.due_date) /\ todo_task.due_date # task.due_date

DueDateDiffers(task, todo_task) ==
    /\ Truthy(todo_task.due_date) /\ todo_task.due_date # task.due_date
    /\ ~task.detail_has_deadline_marker

\* NotesMissing without the test of the local notes
NotesMissingUnguarded(task, todo_task) ==
    TruthyText(todo_task.body) /\ StripLines(Val(todo_task.body)) # <<>>

NotesMissing(task, todo_task) ==
    /\ TruthyText(todo_task.body) /\ StripLines(Val(todo_task.body)) # <<>>
    /\ _extract_notes_from_detail_section(task.detail_section) = None

_update_orgplan_task(ls, orgplan_task, todo_task, kind, dry) ==
    LET Title(st) ==
            Step(st, TitleDiffers(st.task, todo_task), dry, "update_task_description",
                 update_task_description(st.lines, st.task, todo_task.title))
        Status(st) ==
            Step(st, StatusDiffers(st.task, todo_task), dry, "update_task_status",
                 update_task_status(st.lines, st.task,
                                    _map_todo_status_to_orgplan(todo_task.status)))
        Priority(st) ==
            Step(st, PriorityDiffers(st.task, todo_task, kind), dry,
                 "update_task_priority",
                 update_task_priority(st.lines, st.task,
                                      _map_importance_to_priority(todo_task.importance)))
        DueDate(st) ==
            Step(st, DueDateDiffers(st.task, todo_task), dry, "update_task_due_date",
                 update_task_due_date(st.lines, st.task, todo_task.due_date, "plain"))
        \* if todo_task.body and not the notes of the detail section: the id
        \* marker first (when the task has none), then the body
        NotesSection(st, notes) ==
            Step(st, notes /\ ~Truthy(BackendId(st.task, kind)), dry,
                 "add_detail_section",
                 add_detail_section(st.lines, st.task, IdAttr(kind), Some(todo_task.id)))
        NotesBody(st, notes) ==
            Step(st, notes, dry, "update_detail_section_body",
                 update_detail_section_body(st.lines, st.task,
                                            StripLines(Val(todo_task.body))))
        Notes(st, notes) == NotesBody(NotesSection(st, notes), notes)
        \* after "if not changes: return False" and the dry-run return: the id
        \* marker when the task still has none
        Link(st) ==
            Step(st, ~Truthy(BackendId(st.task, kind)), dry, "add_detail_section",
                 add_detail_section(st.lines, st.task, IdAttr(kind), Some(todo_task.id)))
        Applied(st) == Outcome(TRUE, st.lines, st.task, <<>>, st.called, FALSE)
        Return(st) ==
            IF st.changes = {} THEN Outcome(FALSE, ls, orgplan_task, <<>>, {}, FALSE)
            ELSE IF dry THEN Outcome(TRUE, ls, orgplan_task, <<>>, {}, FALSE)
            ELSE Applied(Link(st))
        Fields(st) == Return(Notes(st, NotesMissing(st.task, todo_task)))
    IN Fields(DueDate(Priority(Status(Title(
           [lines |-> ls, task |-> orgplan_task, called |-> {}, changes |-> {}])))))

_create_orgplan_task(ls, todo_task, kind, dry) ==
    LET has_body == TruthyText(todo_task.body) /\ StripLines(Val(todo_task.body)) # <<>>
        Section(a) == add_detail_section(a.lines, a.task, IdAttr(kind), Some(todo_task.id))
        Notes(a) ==
            IF has_body
            THEN update_detail_section_body(a.lines, a.task, StripLines(Val(todo_task.body)))
            ELSE a
        Applied(a) ==
            Outcome(TRUE, a.lines, a.task, <<>>,
                    {"add_task", "add_detail_section"}
                    \cup (IF has_body THEN {"update_detail_section_body"} ELSE {}),
                    FALSE)
        Return(a) ==
            IF dry THEN Outcome(TRUE, ls, a.task, <<>>, {}, FALSE)
            ELSE Applied(Notes(Section(a)))
    IN Return(add_task(ls, todo_task.title, _map_todo_status_to_orgplan(todo_task.status),
                       IF supports_priority(kind)
                       THEN _map_importance_to_priority(todo_task.importance) ELSE None,
                       todo_task.due_date,
                       IF Truthy(todo_task.due_date) THEN Some("plain") ELSE None))

-----------------------------------------------------------------------------
(* SyncEngine.sync_bidirectional, one step per task of each pass *)

\* the largest number of sync_bidirectional runs in a behaviour
MaxRuns == 2
\* the largest number of failing backend calls in a behaviour
MaxFailures == 1

ZeroStats == [created |-> 0, updated |-> 0, skipped |-> 0, errors |-> 0]
ZeroCalls == [create_task |-> 0, update_task |-> 0, delete_task |-> 0, save |-> 0,
              mutators |-> 0]
NoTask == OrgplanTask(<<>>, None, None, None, None)
NoItem == TaskItem("", <<>>, "", None, None, None)
NoLast == [op |-> "none", local |-> 0, remote |-> "", ret |-> FALSE, called |-> {},
           by |-> "none", task |-> NoTask, item |-> NoItem, after |-> NoTask, ok |-> TRUE]

ParserMutators == {"update_task_description", "update_task_status", "update_task_priority",
                   "update_task_due_date", "add_task", "add_detail_section",
                   "update_detail_section_body"}

Count(calls_, called) ==
    [calls_ EXCEPT
       !.create_task = @ + (IF "create_task" \in called THEN 1 ELSE 0),
       !.update_task = @ + (IF "update_task" \in called THEN 1 ELSE 0),
       !.mutators = @ + Cardinality(called \cap ParserMutators)]

\* how _find_matching_todo_task found its result
MatchedTodoBy(orgplan_task, todo_tasks, kind) ==
    IF /\ Truthy(BackendId(orgplan_task, kind))
       /\ TodoById(todo_tasks, Val(BackendId(orgplan_task, kind))) # 0 THEN "id"
    ELSE IF TodoByTitle(todo_tasks, orgplan_task.description) # 0 THEN "title"
    ELSE "none"

\* how _find_matching_orgplan_task found its result
MatchedOrgplanBy(todo_task, keys) ==
    IF OrgplanById(keys, todo_task.id) # 0 THEN "id"
    ELSE IF OrgplanByTitle(keys, todo_task.title) # 0 THEN "title"
    ELSE "none"

\* sync_bidirectional up to the first task of the first pass: the parser is
\* loaded from the file, both sides are read (twice: once by
\* sync_bidirectional, once by sync_orgplan_to_todo)
StartRun ==
    /\ pc \in {"idle", "done"}
    /\ run < MaxRuns
    /\ run' = run + 1
    /\ lines' = LoadLines(file)
    /\ otasks' = parse_tasks(lines')
    /\ ttasks' = get_tasks(backend, remote)
    /\ omap' = <<>>
    /\ idx' = 1
    /\ stats' = [orgplan_to_todo |-> ZeroStats, todo_to_orgplan |-> ZeroStats]
    /\ calls' = ZeroCalls
    /\ last' = [NoLast EXCEPT !.op = "start"]
    /\ hist' = [lines |-> lines', file |-> file, remote |-> remote,
                orgplan_tasks |-> otasks', todo_tasks |-> ttasks',
                prev |-> IF pc = "done" THEN stats ELSE stats',
                failures |-> hist.failures, created |-> {}, handled |-> {}]
    /\ pc' = "orgplan_to_todo"
    /\ UNCHANGED <<file, remote, nextId, backend, dry_run, lockVars, mapVars, requestVars>>

\* NextTask for a loop that a failing task ends
NextTaskAborting(i, n, failed) == IF failed THEN n + 1 ELSE i + 1

\* "for ... in ...: try: ... except Exception: ...": the index of the task the
\* loop of a pass turns to after task i of n, failed or not
NextTask(i, n, failed) == i + 1

\* the body of the loop of sync_orgplan_to_todo for one task
SyncOrgplanTask ==
    /\ pc = "orgplan_to_todo"
    /\ idx <= Len(otasks)
    /\ \E ok \in {TRUE} \cup (IF hist.failures < MaxFailures THEN {FALSE} ELSE {}) :
        LET orgplan_task == otasks[idx]
            Matched(m) ==
                IF m # 0
                THEN _update_todo_task(lines, remote, orgplan_task, ttasks[m],
                                       backend, dry_run, ok)
                ELSE _create_todo_task(lines, remote, orgplan_task, backend,
                                       dry_run, ok, NewIds[nextId + 1])
            Key(m, out) ==
                IF m # 0 THEN (IF out.ret THEN "updated" ELSE "skipped")
                ELSE (IF out.ret THEN "created" ELSE "none")
            Counted(m, out, key) ==
                /\ lines' = out.lines
                /\ remote' = out.store
                /\ nextId' = IF Len(out.store) > Len(remote) THEN nextId + 1 ELSE nextId
                /\ otasks' = [otasks EXCEPT ![idx] = out.task]
                /\ stats' = [stats EXCEPT
                               !.orgplan_to_todo.created = @ + (IF key = "created" THEN 1 ELSE 0),
                               !.orgplan_to_todo.updated = @ + (IF key = "updated" THEN 1 ELSE 0),
                               !.orgplan_to_todo.skipped = @ + (IF key = "skipped" THEN 1 ELSE 0)]
                /\ calls' = Count(calls, out.called)
                /\ idx' = NextTask(idx, Len(otasks), ~ok /\ out.called # {})
                /\ last' = [op |-> IF m # 0 THEN "update_todo" ELSE "create_todo",
                            local |-> idx,
                            remote |-> IF m # 0 THEN ttasks[m].id
                                       ELSE IF Len(out.store) > Len(remote)
                                            THEN NewIds[nextId + 1] ELSE "",
                            ret |-> out.ret, called |-> out.called,
                            by |-> MatchedTodoBy(orgplan_task, ttasks, backend),
                            task |-> orgplan_task,
                            item |-> IF m # 0 THEN ttasks[m] ELSE NewTaskItem(orgplan_task),
                            after |-> out.task, ok |-> ok]
                /\ hist' = [hist EXCEPT
                              !.failures = @ + (IF ~ok /\ out.called # {} THEN 1 ELSE 0),
                              !.handled = @ \cup {<<1, idx>>},
                              !.created = @ \cup (IF Len(out.store) > Len(remote)
                                                  THEN {[local |-> idx, id |-> NewIds[nextId + 1]]}
                                                  ELSE {})]
            Result(m, out) == Counted(m, out, Key(m, out))
            Found(m) == Result(m, Matched(m))
        IN Found(_find_matching_todo_task(orgplan_task, ttasks, backend))
    /\ UNCHANGED <<file, backend, dry_run, pc, run, omap, ttasks, lockVars, mapVars, requestVars>>

\* FinishOrgplanToTodo without the reload: the second pass works on what
\* was read before the first
FinishOrgplanToTodoWithoutReload ==
    /\ pc = "orgplan_to_todo"
    /\ idx > Len(otasks)
    /\ file' = IF dry_run THEN file ELSE SaveText(lines)
    /\ calls' = [calls EXCEPT !.save = @ + (IF dry_run THEN 0 ELSE 1)]
    /\ otasks' = hist.orgplan_tasks
    /\ ttasks' = hist.todo_tasks
    /\ last' = [NoLast EXCEPT !.op = "reload", !.ret = FALSE]
    /\ omap' = MapKeys(otasks', backend)
    /\ idx' = 1
    /\ pc' = "todo_to_orgplan"
    /\ UNCHANGED <<lines, remote, nextId, backend, dry_run, run, stats, hist, lockVars, mapVars, requestVars>>

\* the end of sync_orgplan_to_todo (its save) and, in sync_bidirectional,
\* the reload of both sides when the pass created or updated anything; then
\* the lookup maps of sync_todo_to_orgplan are built
FinishOrgplanToTodo ==
    /\ pc = "orgplan_to_todo"
    /\ idx > Len(otasks)
    /\ file' = IF dry_run THEN file ELSE SaveText(lines)
    /\ calls' = [calls EXCEPT !.save = @ + (IF dry_run THEN 0 ELSE 1)]
    /\ LET reload == \/ stats.orgplan_to_todo.created > 0
                     \/ stats.orgplan_to_todo.updated > 0
       IN /\ otasks' = IF reload THEN parse_tasks(lines) ELSE hist.orgplan_tasks
          /\ ttasks' = IF reload THEN get_tasks(backend, remote) ELSE hist.todo_tasks
          /\ last' = [NoLast EXCEPT !.op = "reload", !.ret = reload]
    /\ omap' = MapKeys(otasks', backend)
    /\ idx' = 1
    /\ pc' = "todo_to_orgplan"
    /\ UNCHANGED <<lines, remote, nextId, backend, dry_run, run, stats, hist, lockVars, mapVars, requestVars>>

\* SkipsCompleted for a pass that skips nothing
SkipsCompletedNever(todo_task, keys) == FALSE

\* if todo_task.is_completed and todo_task.id not in orgplan_by_id
SkipsCompleted(todo_task, keys) ==
    todo_task.status = "completed" /\ OrgplanById(keys, todo_task.id) = 0

\* the body of the loop of sync_todo_to_orgplan for one remote task.
\* ok: whether the parser's methods succeed; when not, the first one called
\* raises before it changes anything: out of _update_orgplan_task the exception
\* reaches the except clause of the loop, _create_orgplan_task catches it
\* itself and returns False
SyncTodoTask ==
    /\ pc = "todo_to_orgplan"
    /\ idx <= Len(ttasks)
    /\ \E ok \in {TRUE} \cup (IF hist.failures < MaxFailures THEN {FALSE} ELSE {}) :
       LET todo_task == ttasks[idx]
           skip == SkipsCompleted(todo_task, omap)
           Matched(m) ==
               IF skip THEN Outcome(FALSE, lines, NoTask, <<>>, {}, FALSE)
               ELSE IF m # 0
               THEN _update_orgplan_task(lines, otasks[m], todo_task, backend, dry_run)
               ELSE _create_orgplan_task(lines, todo_task, backend, dry_run)
           Raising(m, out, failed) ==
               IF failed
               THEN Outcome(FALSE, lines, IF m # 0 THEN otasks[m] ELSE NoTask, <<>>, {},
                            m # 0)
               ELSE out
           Key(m, out) ==
               IF out.raised THEN "errors"
               ELSE IF skip THEN "skipped"
               ELSE IF m # 0 THEN (IF out.ret THEN "updated" ELSE "skipped")
               ELSE (IF out.ret THEN "created" ELSE "none")
           Counted(m, out, key, failed) ==
               /\ lines' = out.lines
               /\ otasks' = IF ~skip /\ m # 0 THEN [otasks EXCEPT ![m] = out.task] ELSE otasks
               /\ stats' = [stats EXCEPT
                              !.todo_to_orgplan.created = @ + (IF key = "created" THEN 1 ELSE 0),
                              !.todo_to_orgplan.updated = @ + (IF key = "updated" THEN 1 ELSE 0),
                              !.todo_to_orgplan.skipped = @ + (IF key = "skipped" THEN 1 ELSE 0),
                              !.todo_to_orgplan.errors = @ + (IF key = "errors" THEN 1 ELSE 0)]
               /\ calls' = Count(calls, out.called)
               /\ last' = [op |-> IF skip THEN "skip_completed"
                                  ELSE IF m # 0 THEN "update_orgplan" ELSE "create_orgplan",
                           local |-> IF skip THEN 0 ELSE m,
                           remote |-> todo_task.id, ret |-> out.ret, called |-> out.called,
                           by |-> IF skip THEN "none" ELSE MatchedOrgplanBy(todo_task, omap),
                           task |-> IF ~skip /\ m # 0 THEN otasks[m] ELSE NoTask,
                           item |-> todo_task, after |-> out.task, ok |-> ~failed]
               /\ idx' = NextTask(idx, Len(ttasks), failed)
               /\ hist' = [hist EXCEPT !.failures = @ + (IF failed THEN 1 ELSE 0),
                                       !.handled = @ \cup {<<2, idx>>}]
           Failed(m, out, failed) == Counted(m, out, Key(m, out), failed)
           Result(m, out, failed) == Failed(m, Raising(m, out, failed), failed)
           Called(m, out) == Result(m, out, ~ok /\ out.called # {})
           Found(m) == Called(m, Matched(m))
       IN Found(_find_matching_orgplan_task(todo_task, omap))
    /\ UNCHANGED <<file, remote, nextId, backend, dry_run, pc, run, omap, ttasks,
                   lockVars, mapVars, requestVars>>

\* the end of sync_bidirectional: the save and the combined statistics
FinishRun ==
    /\ pc = "todo_to_orgplan"
    /\ idx > Len(ttasks)
    /\ file' = IF dry_run THEN file ELSE SaveText(lines)
    /\ calls' = [calls EXCEPT !.save = @ + (IF dry_run THEN 0 ELSE 1)]
    /\ last' = [NoLast EXCEPT !.op = "finish"]
    /\ pc' = "done"
    /\ UNCHANGED <<lines, remote, nextId, backend, dry_run, run, otasks, omap, ttasks,
                   idx, stats, hist, lockVars, mapVars, requestVars>>

total_created == stats.orgplan_to_todo.created + stats.todo_to_orgplan.created
total_updated == stats.orgplan_to_todo.updated + stats.todo_to_orgplan.updated
total_errors == stats.orgplan_to_todo.errors + stats.todo_to_orgplan.errors

-----------------------------------------------------------------------------
(* Documents and remote task sets the runs start from *)

TitleA == <<"A">>
TitleB == <<"B">>
TitleC == <<"C">>
NotesN == <<<<"note">>>>
NotesM == <<<<"memo">>>>

\* a task of a document: its summary line and its detail section (None when
\* the document has no section for it)
LocalEntry(description, status, priority, due, link, notes, detail_deadline, kind) ==
    LET body == (IF Truthy(link) THEN <<IdMarker(IdAttr(kind), Val(link))>> ELSE <<>>)
                \o (IF Truthy(detail_deadline)
                    THEN <<<<"DEADLINE:", IsoToken(Val(detail_deadline))>>>> ELSE <<>>)
                \o (IF Truthy(notes) THEN Val(notes) ELSE <<>>)
    IN [line |-> <<"-">>
                 \o (IF Truthy(status) THEN <<StatusToken(Val(status))>> ELSE <<>>)
                 \o (IF Truthy(priority) THEN <<PriorityTokens[Val(priority)]>> ELSE <<>>)
                 \o description
                 \o (IF Truthy(due) THEN <<IsoToken(Val(due))>> ELSE <<>>),
        section |-> IF body = <<>> THEN None
                    ELSE Some(<<<<>>, SectionHeader(description)>> \o body)]

RECURSIVE EntrySections(_)
EntrySections(entries) ==
    IF entries = <<>> THEN <<>>
    ELSE (IF Truthy(Head(entries).section) THEN Val(Head(entries).section) ELSE <<>>)
         \o EntrySections(Tail(entries))

\* the document: the TODO List section, then the detail sections
Document(entries) ==
    <<TodoHeading>> \o [k \in 1..Len(entries) |-> entries[k].line] \o EntrySections(entries)

\* one pair of tasks with every field varied; the link r9 is to a task the
\* remote list does not hold
RichLocal(kind) ==
    {LocalEntry(TitleA, st, pr, due, link, notes, dd, kind) :
        st \in {None, Some("DONE")}, pr \in {None, Some(1)},
        due \in {None, Some(1)}, link \in {None, Some("r1"), Some("r9")},
        notes \in {None, Some(NotesN)}, dd \in {None, Some(2)}}
RichRemote(kind) ==
    {TaskItem("r1", title, st, IF kind = "microsoft" THEN Some(imp) ELSE None, body, due) :
        title \in {TitleA, TitleB}, st \in {"active", "completed"},
        imp \in {"normal", "high"}, body \in {None, Some(NotesM)},
        due \in IF kind = "microsoft" THEN {None} ELSE {None, Some(1)}}

\* two tasks on each side with links and titles varied
PlainLocal(description, statuses, kind) ==
    {LocalEntry(description, st, None, None, link, None, None, kind) :
        st \in statuses, link \in {None, Some("r1"), Some("r2")}}
PlainRemote(id, statuses, kind) ==
    {TaskItem(id, title, st, IF kind = "microsoft" THEN Some("normal") ELSE None, None, None) :
        title \in {TitleA, TitleB, TitleC}, st \in statuses}

Scenarios(kind) ==
    {[doc |-> Document(<<a>>), store |-> store] :
        a \in RichLocal(kind), store \in {<<>>} \cup {<<r>> : r \in RichRemote(kind)}}
    \cup
    {[doc |-> Document(<<a, b>>), store |-> <<r1, r2>>] :
        a \in PlainLocal(TitleA, {None, Some("DONE")}, kind),
        b \in PlainLocal(TitleB, {None}, kind),
        r1 \in PlainRemote("r1", {"active", "completed"}, kind),
        r2 \in PlainRemote("r2", {"active"}, kind)}
    \cup
    {[doc |-> Document(<<>>), store |-> <<r>>] :
        r \in PlainRemote("r1", {"active", "completed"}, kind)}

\* no mapping method has been called on its own
MapIdle == mapped = <<>>
RequestIdle == request = <<>>

LockIdle ==
    /\ lock_file = None
    /\ clock = 0
    /\ procs = <<>>
    /\ stale_removed = FALSE

SyncInit ==
    /\ backend \in {"microsoft", "google"}
    /\ dry_run \in BOOLEAN
    /\ \E sc \in Scenarios(backend) :
        /\ file = SaveText(sc.doc)
        /\ remote = sc.store
    /\ lines = <<>>
    /\ nextId = 0
    /\ pc = "idle"
    /\ run = 0
    /\ otasks = <<>>
    /\ omap = <<>>
    /\ ttasks = <<>>
    /\ idx = 0
    /\ stats = [orgplan_to_todo |-> ZeroStats, todo_to_orgplan |-> ZeroStats]
    /\ calls = ZeroCalls
    /\ last = NoLast
    /\ hist = [lines |-> <<>>, file |-> file, remote |-> remote,
               orgplan_tasks |-> <<>>, todo_tasks |-> <<>>, prev |-> stats,
               failures |-> 0, created |-> {}, handled |-> {}]
    /\ LockIdle
    /\ MapIdle
    /\ RequestIdle

SyncNext ==
    \/ StartRun
    \/ SyncOrgplanTask
    \/ FinishOrgplanToTodo
    \/ SyncTodoTask
    \/ FinishRun

SpecSync == SyncInit /\ [][SyncNext]_vars

-----------------------------------------------------------------------------
(* One matched pair handed directly to _update_orgplan_task or              *)
(* _update_todo_task, the way the unit tests call them.  The OrgplanTask    *)
(* object is what parsing the document yields, with the status keyword of   *)
(* its summary line as its status (all four keywords).                      *)

UnitStatuses == {None, Some("DONE"), Some("PENDING"), Some("DELEGATED"), Some("CANCELED")}

UnitLocal(kind) ==
    {[status |-> st,
      entry |-> LocalEntry(TitleA, st, pr, due, link, notes, dd, kind),
      bare |-> LocalEntry(TitleA, None, pr, due, link, notes, dd, kind)] :
        st \in UnitStatuses, pr \in {None, Some(1), Some(3)},
        due \in {None, Some(1)}, link \in {None, Some("r1")},
        notes \in {None, Some(NotesN)}, dd \in {None, Some(2)}}

UnitRemote(kind) ==
    RichRemote(kind)
    \cup {TaskItem("r1", TitleA, st, Some("low"), None, None) :
            st \in IF kind = "microsoft" THEN {"active", "completed"} ELSE {}}

UnitTask(local) ==
    [parse_tasks(Document(<<local.bare>>))[1] EXCEPT
        !.status = local.status, !.raw_line = local.entry.line]

UnitInit ==
    /\ backend \in {"microsoft", "google"}
    /\ dry_run \in BOOLEAN
    /\ \E local \in UnitLocal(backend), r \in UnitRemote(backend) :
        /\ lines = Document(<<local.entry>>)
        /\ otasks = <<UnitTask(local)>>
        /\ remote = <<r>>
    /\ ttasks = get_tasks(backend, remote)
    /\ file = SaveText(lines)
    /\ nextId = 0
    /\ pc = "unit"
    /\ run = 0
    /\ omap = MapKeys(otasks, backend)
    /\ idx = 1
    /\ stats = [orgplan_to_todo |-> ZeroStats, todo_to_orgplan |-> ZeroStats]
    /\ calls = ZeroCalls
    /\ last = NoLast
    /\ hist = [lines |-> lines, file |-> file, remote |-> remote,
               orgplan_tasks |-> otasks, todo_tasks |-> ttasks, prev |-> stats,
               failures |-> 0, created |-> {}, handled |-> {}]
    /\ LockIdle
    /\ MapIdle
    /\ RequestIdle

\* engine._update_orgplan_task(orgplan_task, todo_task)
CallUpdateOrgplanTask ==
    /\ pc = "unit"
    /\ LET Returned(out) ==
               /\ lines' = out.lines
               /\ otasks' = <<out.task>>
               /\ calls' = Count(calls, out.called)
               /\ last' = [op |-> "update_orgplan", local |-> 1, remote |-> ttasks[1].id,
                           ret |-> out.ret, called |-> out.called, by |-> "none",
                           task |-> otasks[1], item |-> ttasks[1], after |-> out.task,
                           ok |-> TRUE]
       IN Returned(_update_orgplan_task(lines, otasks[1], ttasks[1], backend, dry_run))
    /\ pc' = "unit_done"
    /\ UNCHANGED <<file, remote, nextId, backend, dry_run, run, omap, ttasks, idx, stats,
                   hist, lockVars, mapVars, requestVars>>

\* engine._update_todo_task(orgplan_task, todo_task)
CallUpdateTodoTask ==
    /\ pc = "unit"
    /\ \E ok \in BOOLEAN :
        LET Returned(out) ==
                /\ lines' = out.lines
                /\ otasks' = <<out.task>>
                /\ remote' = out.store
                /\ calls' = Count(calls, out.called)
                /\ last' = [op |-> "update_todo", local |-> 1, remote |-> ttasks[1].id,
                            ret |-> out.ret, called |-> out.called, by |-> "none",
                            task |-> otasks[1], item |-> ttasks[1], after |-> out.task,
                            ok |-> ok]
        IN Returned(_update_todo_task(lines, remote, otasks[1], ttasks[1], backend,
                                      dry_run, ok))
    /\ pc' = "unit_done"
    /\ UNCHANGED <<file, nextId, backend, dry_run, run, omap, ttasks, idx, stats, hist,
                   lockVars, mapVars, requestVars>>

UnitNext ==
    \/ CallUpdateOrgplanTask
    \/ CallUpdateTodoTask

SpecUnit == UnitInit /\ [][UnitNext]_vars

-----------------------------------------------------------------------------
(* SyncLock (tools/locking.py) and the programs that use it: main of        *)
(* tools/sync.py, a "with SyncLock(...)" block, and a caller of acquire and *)
(* release.  Every access to the lock file is a step of its own, so that    *)
(* the steps of different processes interleave.                             *)

\* the clock stops here
MaxClock == 3
\* stale_threshold, in ticks of the clock
StaleThreshold == 2
\* the timeout of a caller that waits for the lock
WaitTimeout == 2
\* how often a caller of acquire/release calls acquire
MaxAcquires == 2

\* two processes use the same lock file
Procs == {1, 2}

Proc(kind, timeout) ==
    [kind |-> kind, timeout |-> timeout, pc |-> "start", acquired |-> FALSE,
     start_time |-> 0, wake |-> 0, result |-> None, held |-> FALSE, acquires |-> 0,
     results |-> <<>>, did |-> {}, raised |-> "", code |-> None, exit_code |-> None]

\* AcquireReturn for a main that goes on whatever acquire returned
AcquireReturnUnchecked(pr, result) ==
    LET r == [pr EXCEPT !.result = Some(result), !.held = @ \/ result,
                        !.results = Append(@, result)]
    IN IF pr.kind = "main" THEN [r EXCEPT !.pc = "authenticate"]
       ELSE IF pr.kind = "with"
       THEN (IF result THEN [r EXCEPT !.pc = "body"]
             ELSE [r EXCEPT !.pc = "exited", !.raised = "RuntimeError"])
       ELSE [r EXCEPT !.pc = "returned"]

\* acquire returns result to its caller: main (sync.py), __enter__, or a
\* caller of the method
AcquireReturn(pr, result) ==
    LET r == [pr EXCEPT !.result = Some(result), !.held = @ \/ result,
                        !.results = Append(@, result)]
    IN IF pr.kind = "main"
       THEN (IF result THEN [r EXCEPT !.pc = "authenticate"]
             ELSE [r EXCEPT !.pc = "exited", !.exit_code = Some(1)])
       ELSE IF pr.kind = "with"
       THEN (IF result THEN [r EXCEPT !.pc = "body"]
             ELSE [r EXCEPT !.pc = "exited", !.raised = "RuntimeError"])
       ELSE [r EXCEPT !.pc = "returned"]

\* an exception leaves acquire: nothing catches it in main (the call is
\* outside the try block), in __enter__ or in the caller
AcquireRaise(pr, exception) ==
    [pr EXCEPT !.pc = "exited", !.raised = exception,
               !.exit_code = IF pr.kind = "main" THEN Some(1) ELSE @]

\* release returns: main exits with the pending code, the with block is
\* left, a caller of the methods may call acquire again
ReleaseReturn(pr) ==
    IF pr.kind = "main" THEN [pr EXCEPT !.pc = "exited", !.exit_code = pr.code]
    ELSE IF pr.kind = "with" THEN [pr EXCEPT !.pc = "exited"]
    ELSE [pr EXCEPT !.pc = IF pr.acquires < MaxAcquires THEN "start" ELSE "exited"]

\* Finally for a main without the finally clause
FinallyWithoutRelease(pr, code) == [pr EXCEPT !.pc = "exited", !.exit_code = Some(code)]

\* the try block of main is left with this exit code; finally runs
Finally(pr, code) == [pr EXCEPT !.pc = "release", !.code = Some(code)]

Set(p, pr) == procs' = [procs EXCEPT ![p] = pr]

\* acquire is called: start_time = time.time()
Acquire(p) ==
    /\ procs[p].pc = "start"
    /\ Set(p, [procs[p] EXCEPT !.pc = "exists", !.start_time = clock,
                               !.acquires = @ + 1, !.result = None, !.held = FALSE])
    /\ UNCHANGED <<lock_file, clock, stale_removed, syncVars, mapVars, requestVars>>

\* if self.lock_file.exists()
CheckExists(p) ==
    /\ procs[p].pc = "exists"
    /\ Set(p, [procs[p] EXCEPT !.pc = IF lock_file # None THEN "stat" ELSE "write"])
    /\ UNCHANGED <<lock_file, clock, stale_removed, syncVars, mapVars, requestVars>>

\* IsStale for an acquire that takes every lock file for a stale one
IsStaleAlways(lock_age, stale_threshold) == TRUE

\* if lock_age > stale_threshold
IsStale(lock_age, stale_threshold) == lock_age > stale_threshold

\* TimedOut for an acquire that waits one round longer
TimedOutLate(elapsed, timeout) == elapsed > timeout

\* if elapsed >= timeout
TimedOut(elapsed, timeout) == elapsed >= timeout

\* lock_age = time.time() - self.lock_file.stat().st_mtime and the branch on it
StatLock(p) ==
    /\ procs[p].pc = "stat"
    /\ LET pr == procs[p]
       IN IF lock_file = None THEN Set(p, AcquireRaise(pr, "FileNotFoundError"))
          ELSE IF IsStale(clock - Val(lock_file).mtime, StaleThreshold)
          THEN Set(p, [pr EXCEPT !.pc = "unlink"])
          ELSE IF pr.timeout = 0 THEN Set(p, AcquireReturn(pr, FALSE))
          ELSE IF TimedOut(clock - pr.start_time, pr.timeout)
          THEN Set(p, AcquireReturn(pr, FALSE))
          ELSE Set(p, [pr EXCEPT !.pc = "sleep", !.wake = clock + 1])
    /\ UNCHANGED <<lock_file, clock, stale_removed, syncVars, mapVars, requestVars>>

\* self.lock_file.unlink() of a stale lock; OSError when the file is gone
UnlinkStale(p) ==
    /\ procs[p].pc = "unlink"
    /\ IF lock_file = None
       THEN /\ Set(p, AcquireReturn(procs[p], FALSE))
            /\ UNCHANGED <<lock_file, stale_removed>>
       ELSE /\ lock_file' = None
            /\ stale_removed' = TRUE
            /\ Set(p, [procs[p] EXCEPT !.pc = "write"])
    /\ UNCHANGED <<clock, syncVars, mapVars, requestVars>>

\* time.sleep(1) is over
Wake(p) ==
    /\ procs[p].pc = "sleep"
    /\ clock >= procs[p].wake
    /\ Set(p, [procs[p] EXCEPT !.pc = "exists"])
    /\ UNCHANGED <<lock_file, clock, stale_removed, syncVars, mapVars, requestVars>>

\* self.lock_file.write_text(...); self.acquired = True; return True
WriteLock(p) ==
    /\ procs[p].pc = "write"
    /\ lock_file' = Some([mtime |-> clock, pid |-> p])
    /\ Set(p, AcquireReturn([procs[p] EXCEPT !.acquired = TRUE], TRUE))
    /\ UNCHANGED <<clock, stale_removed, syncVars, mapVars, requestVars>>

\* release(): nothing when not acquired; else the exists() check
Release(p) ==
    /\ procs[p].pc = "release"
    /\ LET pr == procs[p]
       IN IF ~pr.acquired THEN Set(p, ReleaseReturn(pr))
          ELSE IF lock_file # None THEN Set(p, [pr EXCEPT !.pc = "release_unlink"])
          ELSE Set(p, ReleaseReturn([pr EXCEPT !.acquired = FALSE]))
    /\ UNCHANGED <<lock_file, clock, stale_removed, syncVars, mapVars, requestVars>>

\* release(): self.lock_file.unlink(), an OSError is logged; finally
\* self.acquired = False
ReleaseUnlink(p) ==
    /\ procs[p].pc = "release_unlink"
    /\ lock_file' = None
    /\ Set(p, ReleaseReturn([procs[p] EXCEPT !.acquired = FALSE]))
    /\ UNCHANGED <<clock, stale_removed, syncVars, mapVars, requestVars>>

\* main: TodoClient(...).authenticate()
Authenticate(p) ==
    /\ procs[p].pc = "authenticate"
    /\ \E outcome \in {"ok", "Exception", "KeyboardInterrupt"} :
        LET pr == [procs[p] EXCEPT !.did = @ \cup {"authenticate"}]
        IN Set(p, IF outcome = "ok" THEN [pr EXCEPT !.pc = "get_list_by_name"]
                  ELSE IF outcome = "Exception"
                  THEN Finally([pr EXCEPT !.raised = outcome], 1)
                  ELSE Finally([pr EXCEPT !.raised = outcome], 130))
    /\ UNCHANGED <<lock_file, clock, stale_removed, syncVars, mapVars, requestVars>>

\* GetListByName for a main that goes on without the list
GetListByNameIgnoringMissing(p) ==
    /\ procs[p].pc = "get_list_by_name"
    /\ \E outcome \in {"found", "missing", "Exception", "KeyboardInterrupt"} :
        LET pr == [procs[p] EXCEPT !.did = @ \cup {"get_list_by_name"}]
        IN Set(p, IF outcome = "found" THEN [pr EXCEPT !.pc = "load"]
                  ELSE IF outcome = "missing"
                  THEN [pr EXCEPT !.did = @ \cup {"get_task_lists"}, !.pc = "load"]
                  ELSE IF outcome = "Exception"
                  THEN Finally([pr EXCEPT !.raised = outcome], 1)
                  ELSE Finally([pr EXCEPT !.raised = outcome], 130))
    /\ UNCHANGED <<lock_file, clock, stale_removed, syncVars, mapVars, requestVars>>

\* main: todo_client.get_list_by_name(...); sys.exit(1) when there is none
GetListByName(p) ==
    /\ procs[p].pc = "get_list_by_name"
    /\ \E outcome \in {"found", "missing", "Exception", "KeyboardInterrupt"} :
        LET pr == [procs[p] EXCEPT !.did = @ \cup {"get_list_by_name"}]
        IN Set(p, IF outcome = "found" THEN [pr EXCEPT !.pc = "load"]
                  ELSE IF outcome = "missing"
                  THEN Finally([pr EXCEPT !.did = @ \cup {"get_task_lists"},
                                          !.raised = "SystemExit"], 1)
                  ELSE IF outcome = "Exception"
                  THEN Finally([pr EXCEPT !.raised = outcome], 1)
                  ELSE Finally([pr EXCEPT !.raised = outcome], 130))
    /\ UNCHANGED <<lock_file, clock, stale_removed, syncVars, mapVars, requestVars>>

\* main: OrgplanParser(...).load() and validate()
LoadDocument(p) ==
    /\ procs[p].pc = "load"
    /\ \E outcome \in {"ok", "Exception", "KeyboardInterrupt"} :
        LET pr == [procs[p] EXCEPT !.did = @ \cup {"load"}]
        IN Set(p, IF outcome = "ok" THEN [pr EXCEPT !.pc = "SyncEngine"]
                  ELSE IF outcome = "Exception"
                  THEN Finally([pr EXCEPT !.raised = outcome], 1)
                  ELSE Finally([pr EXCEPT !.raised = outcome], 130))
    /\ UNCHANGED <<lock_file, clock, stale_removed, syncVars, mapVars, requestVars>>

\* main: SyncEngine(orgplan_parser=, todo_client=, todo_list_id=, dry_run=);
\* __init__ has no parameters todo_client and todo_list_id: TypeError, caught
\* by "except Exception"
CreateEngine(p) ==
    /\ procs[p].pc = "SyncEngine"
    /\ Set(p, Finally([procs[p] EXCEPT !.did = @ \cup {"SyncEngine"},
                                       !.raised = "TypeError"], 1))
    /\ UNCHANGED <<lock_file, clock, stale_removed, syncVars, mapVars, requestVars>>

\* the body of a with block: it ends or raises; __exit__ releases
Body(p) ==
    /\ procs[p].pc = "body"
    /\ \E raises \in BOOLEAN :
        Set(p, [procs[p] EXCEPT !.pc = "release", !.did = @ \cup {"body"},
                                !.raised = IF raises THEN "ValueError" ELSE ""])
    /\ UNCHANGED <<lock_file, clock, stale_removed, syncVars, mapVars, requestVars>>

\* a caller of acquire goes on to call release()
CallRelease(p) ==
    /\ procs[p].pc = "returned"
    /\ Set(p, [procs[p] EXCEPT !.pc = "release"])
    /\ UNCHANGED <<lock_file, clock, stale_removed, syncVars, mapVars, requestVars>>

\* a second passes
Tick ==
    /\ clock < MaxClock
    /\ clock' = clock + 1
    /\ UNCHANGED <<lock_file, procs, stale_removed, syncVars, mapVars, requestVars>>

SyncIdle ==
    /\ lines = <<>> /\ file = <<>> /\ remote = <<>> /\ nextId = 0
    /\ backend = "microsoft" /\ dry_run = FALSE /\ pc = "idle" /\ run = 0
    /\ otasks = <<>> /\ omap = <<>> /\ ttasks = <<>> /\ idx = 0
    /\ stats = [orgplan_to_todo |-> ZeroStats, todo_to_orgplan |-> ZeroStats]
    /\ calls = ZeroCalls /\ last = NoLast
    /\ hist = [lines |-> <<>>, file |-> <<>>, remote |-> <<>>, orgplan_tasks |-> <<>>,
               todo_tasks |-> <<>>, prev |-> stats, failures |-> 0, created |-> {}, handled |-> {}]

\* main calls acquire(timeout=0); __enter__ calls acquire(); the lock file
\* may be there already, left by a process that died (pid 0)
LockInit ==
    /\ lock_file \in {None, Some([mtime |-> 0, pid |-> 0])}
    /\ clock = 0
    /\ procs \in [Procs -> {Proc("main", 0), Proc("with", 0), Proc("caller", 0),
                            Proc("caller", WaitTimeout)}]
    /\ procs[1].kind = "caller" => procs[2].kind = "caller"
    /\ procs[2].kind = "main" => procs[1].kind = "main"
    /\ stale_removed = FALSE
    /\ SyncIdle
    /\ MapIdle
    /\ RequestIdle

LockNext ==
    \/ \E p \in Procs : Acquire(p)
    \/ \E p \in Procs : CheckExists(p)
    \/ \E p \in Procs : StatLock(p)
    \/ \E p \in Procs : UnlinkStale(p)
    \/ \E p \in Procs : Wake(p)
    \/ \E p \in Procs : WriteLock(p)
    \/ \E p \in Procs : Release(p)
    \/ \E p \in Procs : ReleaseUnlink(p)
    \/ \E p \in Procs : Authenticate(p)
    \/ \E p \in Procs : GetListByName(p)
    \/ \E p \in Procs : LoadDocument(p)
    \/ \E p \in Procs : CreateEngine(p)
    \/ \E p \in Procs : Body(p)
    \/ \E p \in Procs : CallRelease(p)
    \/ Tick

SpecLock == LockInit /\ [][LockNext]_vars

-----------------------------------------------------------------------------
(* Callers of acquire and release only, some of them waiting for the lock   *)
(* (timeout > 0): every process keeps running and time passes.              *)

WaitInit ==
    /\ lock_file \in {None, Some([mtime |-> 0, pid |-> 0])}
    /\ clock = 0
    /\ procs \in [Procs -> {Proc("caller", 0), Proc("caller", WaitTimeout)}]
    /\ stale_removed = FALSE
    /\ SyncIdle
    /\ MapIdle
    /\ RequestIdle

\* the steps of acquire and release of one process
WaitStep(p) ==
    \/ Acquire(p)
    \/ CheckExists(p)
    \/ StatLock(p)
    \/ UnlinkStale(p)
    \/ Wake(p)
    \/ WriteLock(p)
    \/ CallRelease(p)
    \/ Release(p)
    \/ ReleaseUnlink(p)

WaitNext ==
    \/ \E p \in Procs : WaitStep(p)
    \/ Tick

SpecWait ==
    /\ WaitInit /\ [][WaitNext]_vars
    /\ WF_vars(Tick)
    /\ \A p \in Procs : WF_vars(WaitStep(p))

-----------------------------------------------------------------------------
(* The mapping methods of SyncEngine called on their own: a chain starts    *)
(* from a priority, an importance, a document status or a backend status,   *)
(* and each step maps the last value to the other side.                     *)

\* the largest priority number (#pN) a chain starts from
MaxPriority == 9
\* the largest number of values in a chain
MaxChain == 5

MapInputs ==
    {[kind |-> "priority", val |-> p] : p \in {None} \cup {Some(n) : n \in 0..MaxPriority}}
    \cup {[kind |-> "importance", val |-> i] :
            i \in {None, Some("low"), Some("normal"), Some("high"), Some("urgent")}}
    \cup {[kind |-> "orgplan_status", val |-> st] : st \in UnitStatuses}
    \cup {[kind |-> "todo_status", val |-> st] : st \in {"active", "completed", "inProgress"}}

MapInit ==
    /\ \E x \in MapInputs : mapped = <<x>>
    /\ SyncIdle
    /\ LockIdle
    /\ RequestIdle

MapLast == mapped[Len(mapped)]

\* self._map_priority_to_importance(priority)
CallMapPriorityToImportance ==
    /\ Len(mapped) < MaxChain /\ MapLast.kind = "priority"
    /\ mapped' = Append(mapped, [kind |-> "importance",
                                 val |-> Some(_map_priority_to_importance(MapLast.val))])
    /\ UNCHANGED <<syncVars, lockVars, requestVars>>

\* self._map_importance_to_priority(importance)
CallMapImportanceToPriority ==
    /\ Len(mapped) < MaxChain /\ MapLast.kind = "importance"
    /\ mapped' = Append(mapped, [kind |-> "priority",
                                 val |-> _map_importance_to_priority(MapLast.val)])
    /\ UNCHANGED <<syncVars, lockVars, requestVars>>

\* self._map_orgplan_status_to_todo(status)
CallMapOrgplanStatusToTodo ==
    /\ Len(mapped) < MaxChain /\ MapLast.kind = "orgplan_status"
    /\ mapped' = Append(mapped, [kind |-> "todo_status",
                                 val |-> _map_orgplan_status_to_todo(MapLast.val)])
    /\ UNCHANGED <<syncVars, lockVars, requestVars>>

\* self._map_todo_status_to_orgplan(status)
CallMapTodoStatusToOrgplan ==
    /\ Len(mapped) < MaxChain /\ MapLast.kind = "todo_status"
    /\ mapped' = Append(mapped, [kind |-> "orgplan_status",
                                 val |-> _map_todo_status_to_orgplan(MapLast.val)])
    /\ UNCHANGED <<syncVars, lockVars, requestVars>>

MapNext ==
    \/ CallMapPriorityToImportance
    \/ CallMapImportanceToPriority
    \/ CallMapOrgplanStatusToTodo
    \/ CallMapTodoStatusToOrgplan

SpecMap == MapInit /\ [][MapNext]_vars

-----------------------------------------------------------------------------
(* One call of MicrosoftTodoBackend._make_request: _do_request sends the    *)
(* request and turns the answer into a return value or an exception,        *)
(* retry_on_failure (errors.py) calls it again after a failure.             *)

\* the largest max_retries a call is made with (_make_request passes 3)
MaxRetries == 3

\* what the service does with one request: the connection fails
\* (requests.exceptions.*), or a response with a status code arrives
Responses ==
    {[failure |-> f, status_code |-> 0] : f \in {"Timeout", "ConnectionError"}}
    \cup {[failure |-> "", status_code |-> c] : c \in {200, 400, 404, 429, 500, 503}}

\* a failure the service may recover from: the network, the server (5xx), the
\* rate limit (429)
Transient(response) ==
    \/ response.failure # ""
    \/ response.status_code >= 500
    \/ response.status_code = 429

\* _do_request on the call-th invocation: the value returned, or the exception
\* object raised (call tells the objects of different invocations apart)
_do_request(response, call) ==
    IF response.failure # ""
    THEN [raises |-> TRUE, cls |-> "NetworkError", message |-> response.failure,
          status_code |-> 0, call |-> call]
    ELSE IF response.status_code >= 500
    THEN [raises |-> TRUE, cls |-> "APIError", message |-> "Server error",
          status_code |-> response.status_code, call |-> call]
    ELSE IF response.status_code = 429
    THEN [raises |-> TRUE, cls |-> "APIError", message |-> "Rate limited",
          status_code |-> response.status_code, call |-> call]
    ELSE IF response.status_code >= 400
    THEN [raises |-> TRUE, cls |-> "APIError", message |-> "API request failed",
          status_code |-> response.status_code, call |-> call]
    ELSE [raises |-> FALSE, cls |-> "", message |-> "json",
          status_code |-> response.status_code, call |-> call]

\* Retries for a loop that makes one attempt more
RetriesOneMore(attempt, max_retries) == attempt <= max_retries

\* retry_on_failure, "if attempt < max_retries": sleep and go round again
Retries(attempt, max_retries) == attempt < max_retries

\* _make_request(method, endpoint, json_data, retry) is called;
\* retry_on_failure starts with delay = initial_delay, last_exception = None
RequestInit ==
    /\ \E retry \in BOOLEAN, max_retries \in 0..MaxRetries :
        request = [pc |-> "call", retry |-> retry, max_retries |-> max_retries,
                   attempt |-> 0, delay |-> 1, last_exception |-> None,
                   responses |-> <<>>, slept |-> 0,
                   returned |-> None, raised |-> None]
    /\ SyncIdle
    /\ LockIdle
    /\ MapIdle

\* one invocation of func: "try: return func()", and after an exception
\* "last_exception = e" and the test of attempt; without retry the call is
\* _do_request() itself
DoRequest ==
    /\ request.pc = "call"
    /\ \E response \in Responses :
        LET out == _do_request(response, Len(request.responses) + 1)
            r == [request EXCEPT !.responses = Append(@, response)]
        IN request' =
            IF ~out.raises THEN [r EXCEPT !.pc = "returned", !.returned = Some(out)]
            ELSE IF ~request.retry THEN [r EXCEPT !.pc = "raised", !.raised = Some(out)]
            ELSE IF Retries(request.attempt, request.max_retries)
            THEN [r EXCEPT !.pc = "sleep", !.last_exception = Some(out)]
            ELSE [r EXCEPT !.pc = "exhausted", !.last_exception = Some(out)]
    /\ UNCHANGED <<syncVars, lockVars, mapVars>>

\* time.sleep(delay); delay *= backoff_factor; the next attempt
Sleep ==
    /\ request.pc = "sleep"
    /\ request' = [request EXCEPT !.pc = "call", !.slept = @ + request.delay,
                                  !.delay = @ * 2, !.attempt = @ + 1]
    /\ UNCHANGED <<syncVars, lockVars, mapVars>>

\* after the loop: raise last_exception
RaiseLast ==
    /\ request.pc = "exhausted"
    /\ request' = [request EXCEPT !.pc = "raised", !.raised = request.last_exception]
    /\ UNCHANGED <<syncVars, lockVars, mapVars>>

RequestNext ==
    \/ DoRequest
    \/ Sleep
    \/ RaiseLast

SpecRequest == RequestInit /\ [][RequestNext]_vars

\* the loop of retry_on_failure runs on: nothing stops the calling thread
SpecRequestFair == SpecRequest /\ WF_vars(RequestNext)

-----------------------------------------------------------------------------
(* The methods of OrgplanParser called on their own, the way the parser     *)
(* tests call them: a document is loaded and parsed, then one mutator is    *)
(* called with one of the parsed task objects, or with a task object that   *)
(* was parsed from a longer buffer and whose line_number now lies beyond    *)
(* the end of the lines.                                                    *)

\* the due part of a summary line
ParserDueParts ==
    {<<>>, <<IsoToken(1)>>, <<"DEADLINE:", IsoToken(2)>>, <<"SCHEDULED:", IsoToken(1)>>,
     <<BadDateToken>>}

\* the summary lines of task A
ParserTaskLines ==
    {<<"-">> \o st \o pr \o TitleA \o due :
        st \in {<<>>, <<"[DONE]">>}, pr \in {<<>>, <<"#p2">>}, due \in ParserDueParts}
    \cup {<<"-", "[PENDING]", "#p1", "#2h">> \o TitleA, <<"-", "[CANCELED]">> \o TitleA}

\* the bodies of the detail section of a task; the empty body stands for a
\* document without that section
ParserBodies ==
    {ms \o gt \o dl \o notes :
        ms \in {<<>>, <<IdMarker("ms_todo_id", "r1")>>},
        gt \in {<<>>, <<IdMarker("google_tasks_id", "g1")>>},
        dl \in {<<>>, <<<<"DEADLINE:", IsoToken(2)>>>>, <<<<"due", IsoToken(3)>>>>},
        notes \in {<<>>, NotesN}}

ParserSection(description, body) ==
    IF body = <<>> THEN <<>> ELSE <<<<>>, SectionHeader(description)>> \o body

\* a TODO List section with task A, with or without task B after it, and
\* their detail sections; or a TODO List section without tasks
ParserDocs ==
    {<<TodoHeading, line>> \o second \o ParserSection(TitleA, body)
        \o (IF second = <<>> THEN <<>>
            ELSE ParserSection(TitleB, <<IdMarker("ms_todo_id", "r2")>>)) :
        line \in ParserTaskLines, body \in ParserBodies,
        second \in {<<>>, <<<<"-", "#p3">> \o TitleB>>}}
    \cup {pre \o <<TodoHeading>> \o post :
            pre \in {<<>>, <<<<"#", "Plan">>, <<"text">>>>},
            post \in {<<>>, <<<<>>>> \o ParserSection(TitleB, NotesN)}}

ParserInit ==
    /\ lines \in ParserDocs
    /\ otasks = parse_tasks(lines)
    /\ file = SaveText(lines)
    /\ backend = "microsoft"
    /\ dry_run = FALSE
    /\ remote = <<>>
    /\ ttasks = <<>>
    /\ nextId = 0
    /\ pc = "parser"
    /\ run = 0
    /\ omap = MapKeys(otasks, backend)
    /\ idx = 1
    /\ stats = [orgplan_to_todo |-> ZeroStats, todo_to_orgplan |-> ZeroStats]
    /\ calls = ZeroCalls
    /\ last = NoLast
    /\ hist = [lines |-> lines, file |-> file, remote |-> remote,
               orgplan_tasks |-> otasks, todo_tasks |-> ttasks, prev |-> stats,
               failures |-> 0, created |-> {}, handled |-> {}]
    /\ LockIdle
    /\ MapIdle
    /\ RequestIdle

\* the task objects a caller can hold: the k-th parsed task, or (stale) one
\* with the same fields whose line_number is past the end of the lines
ParserTask(k, stale) ==
    IF stale THEN [otasks[k] EXCEPT !.line_number = Len(lines) + 1] ELSE otasks[k]

\* the caller's task object is mutated in place
ParserReturned(op, k, stale, value, style, out) ==
    /\ lines' = out.lines
    /\ otasks' = IF k = 0 \/ stale THEN otasks ELSE [otasks EXCEPT ![k] = out.task]
    /\ last' = [op |-> op, local |-> k, stale |-> stale, value |-> value, style |-> style,
                task |-> IF k = 0 THEN NoTask ELSE ParserTask(k, stale),
                after |-> out.task]
    /\ pc' = "parser_done"
    /\ UNCHANGED <<file, remote, nextId, backend, dry_run, run, omap, ttasks, idx, stats,
                   calls, hist, lockVars, mapVars, requestVars>>

\* parser.update_task_status(task, new_status)
CallUpdateTaskStatus ==
    /\ pc = "parser"
    /\ \E k \in 1..Len(otasks), stale \in BOOLEAN,
          v \in {None, Some("DONE"), Some("PENDING"), Some("DELEGATED"), Some("CANCELED")} :
        ParserReturned("update_task_status", k, stale, v, None,
                       update_task_status(lines, ParserTask(k, stale), v))

\* parser.update_task_priority(task, new_priority)
CallUpdateTaskPriority ==
    /\ pc = "parser"
    /\ \E k \in 1..Len(otasks), stale \in BOOLEAN, v \in {None, Some(1), Some(2)} :
        ParserReturned("update_task_priority", k, stale, v, None,
                       update_task_priority(lines, ParserTask(k, stale), v))

\* parser.update_task_description(task, new_description)
CallUpdateTaskDescription ==
    /\ pc = "parser"
    /\ \E k \in 1..Len(otasks), stale \in BOOLEAN, v \in {TitleA, TitleC} :
        ParserReturned("update_task_description", k, stale, v, None,
                       update_task_description(lines, ParserTask(k, stale), v))

\* parser.update_task_due_date(task, new_due_date, due_marker_style=style)
CallUpdateTaskDueDate ==
    /\ pc = "parser"
    /\ \E k \in 1..Len(otasks), stale \in BOOLEAN, v \in {None, Some(1), Some(3)},
          style \in {"plain", "deadline", "scheduled"} :
        ParserReturned("update_task_due_date", k, stale, v, Some(style),
                       update_task_due_date(lines, ParserTask(k, stale), v, style))

\* parser.add_task(description, status, priority, due_date, due_marker_style)
CallAddTask ==
    /\ pc = "parser"
    /\ \E description \in {TitleB, TitleC}, status \in {None, Some("PENDING")},
          priority \in {None, Some(1)}, due \in {None, Some(3)} :
        ParserReturned("add_task", 0, FALSE,
                       [description |-> description, status |-> status,
                        priority |-> priority, due_date |-> due],
                       IF Truthy(due) THEN Some("plain") ELSE None,
                       add_task(lines, description, status, priority, due,
                                IF Truthy(due) THEN Some("plain") ELSE None))

\* parser.add_detail_section(task, ms_todo_id=id) or (task, google_tasks_id=id)
CallAddDetailSection ==
    /\ pc = "parser"
    /\ \E k \in 1..Len(otasks), attr \in IdAttrs, id \in {"r1", "n7"} :
        ParserReturned("add_detail_section", k, FALSE, Some(id), Some(attr),
                       add_detail_section(lines, otasks[k], attr, Some(id)))

ParserNext ==
    \/ CallUpdateTaskStatus
    \/ CallUpdateTaskPriority
    \/ CallUpdateTaskDescription
    \/ CallUpdateTaskDueDate
    \/ CallAddTask
    \/ CallAddDetailSection

SpecParser == ParserInit /\ [][ParserNext]_vars

-----------------------------------------------------------------------------
(* A sequence of parser mutator calls made with the task objects of one     *)
(* parse, as a pass of the engine makes them: the objects are parsed once,  *)
(* each call mutates the lines and the object it is given, and no call      *)
(* parses again.  Some documents have a detail section before the TODO      *)
(* List section.                                                            *)

\* the largest number of mutator calls in a behaviour
MaxCalls == 2

AnchorDocs ==
    {before \o <<TodoHeading, <<"-">> \o TitleA, <<"-", "[PENDING]", "#p3">> \o TitleB>>
        \o after :
        before \in {<<>>,
                    <<SectionHeader(TitleA)>> \o NotesN \o <<<<>>>>,
                    <<SectionHeader(TitleB), IdMarker("ms_todo_id", "r2")>> \o <<<<>>>>},
        after \in {<<>>,
                   ParserSection(TitleA, <<IdMarker("google_tasks_id", "g1")>> \o NotesN)}}

AnchorInit ==
    /\ lines \in AnchorDocs
    /\ otasks = parse_tasks(lines)
    /\ file = SaveText(lines)
    /\ backend = "microsoft"
    /\ dry_run = FALSE
    /\ remote = <<>>
    /\ ttasks = <<>>
    /\ nextId = 0
    /\ pc = "anchor"
    /\ run = 0
    /\ omap = MapKeys(otasks, backend)
    /\ idx = 0
    /\ stats = [orgplan_to_todo |-> ZeroStats, todo_to_orgplan |-> ZeroStats]
    /\ calls = ZeroCalls
    /\ last = NoLast
    /\ hist = [lines |-> lines, file |-> file, remote |-> remote,
               orgplan_tasks |-> otasks, todo_tasks |-> ttasks, prev |-> stats,
               failures |-> 0, created |-> {}, handled |-> {}]
    /\ LockIdle
    /\ MapIdle
    /\ RequestIdle

\* the call op on the k-th task object (k = 0: no task object is passed)
\* has returned out; hist.lines are the lines before the call
AnchorReturned(op, k, out) ==
    /\ lines' = out.lines
    /\ otasks' = IF k = 0 THEN otasks ELSE [otasks EXCEPT ![k] = out.task]
    /\ last' = [op |-> op, local |-> k,
                task |-> IF k = 0 THEN NoTask ELSE otasks[k], after |-> out.task]
    /\ hist' = [hist EXCEPT !.lines = lines]
    /\ idx' = idx + 1
    /\ UNCHANGED <<file, remote, nextId, backend, dry_run, pc, run, omap, ttasks, stats,
                   calls, lockVars, mapVars, requestVars>>

AnchorUpdateStatus ==
    /\ pc = "anchor" /\ idx < MaxCalls
    /\ \E k \in 1..Len(otasks), v \in {None, Some("DONE")} :
        AnchorReturned("update_task_status", k, update_task_status(lines, otasks[k], v))

AnchorUpdatePriority ==
    /\ pc = "anchor" /\ idx < MaxCalls
    /\ \E k \in 1..Len(otasks), v \in {None, Some(1)} :
        AnchorReturned("update_task_priority", k, update_task_priority(lines, otasks[k], v))

AnchorUpdateDescription ==
    /\ pc = "anchor" /\ idx < MaxCalls
    /\ \E k \in 1..Len(otasks) :
        AnchorReturned("update_task_description", k,
                       update_task_description(lines, otasks[k], TitleC))

AnchorUpdateDueDate ==
    /\ pc = "anchor" /\ idx < MaxCalls
    /\ \E k \in 1..Len(otasks), v \in {None, Some(1)} :
        AnchorReturned("update_task_due_date", k,
                       update_task_due_date(lines, otasks[k], v, "plain"))

AnchorAddTask ==
    /\ pc = "anchor" /\ idx < MaxCalls
    /\ \E status \in {None, Some("DONE")} :
        AnchorReturned("add_task", 0, add_task(lines, TitleC, status, None, None, None))

AnchorAddDetailSection ==
    /\ pc = "anchor" /\ idx < MaxCalls
    /\ \E k \in 1..Len(otasks), attr \in IdAttrs :
        AnchorReturned("add_detail_section", k,
                       add_detail_section(lines, otasks[k], attr, Some("n7")))

AnchorNext ==
    \/ AnchorUpdateStatus
    \/ AnchorUpdatePriority
    \/ AnchorUpdateDescription
    \/ AnchorUpdateDueDate
    \/ AnchorAddTask
    \/ AnchorAddDetailSection

SpecAnchor == AnchorInit /\ [][AnchorNext]_vars

-----------------------------------------------------------------------------
(* Properties *)

\* the pair of the last step agrees in every field but the status
AgreesButStatus ==
    /\ ~TitleDiffers(last.task, last.item)
    /\ ~PriorityDiffers(last.task, last.item, backend)
    /\ ~DueDateDiffers(last.task, last.item)
    /\ ~NotesMissing(last.task, last.item)

\* C1: in the remote->document direction, for a matched pair whose local
\* status is CANCELED and whose remote status is completed, all other fields
\* agreeing, _update_orgplan_task returns False (not modified), does not call
\* update_task_status, and the local status stays CANCELED.
C1_CanceledIsKept ==
    (/\ pc = "unit_done"
     /\ last.op = "update_orgplan"
     /\ last.task.status = Some("CANCELED")
     /\ last.item.status = "completed"
     /\ AgreesButStatus)
    => /\ last.ret = FALSE
       /\ "update_task_status" \notin last.called
       /\ last.after.status = Some("CANCELED")

\* C2: after one complete non-dry-run sync_bidirectional run (no backend call
\* failed, nothing changed in between), the second run reports zero creates
\* and zero updates in both directions and makes no create_task or
\* update_task call.
C2_SecondRunIsIdle ==
    (pc = "done" /\ run = 2 /\ ~dry_run /\ hist.failures = 0)
    => /\ total_created = 0
       /\ total_updated = 0
       /\ calls.create_task = 0
       /\ calls.update_task = 0

\* C3: as long as no lock is stale (none has been removed as stale and the
\* lock file, if any, is not older than stale_threshold), at most one
\* process holds the lock (acquire returned True, not yet released).
C3_MutualExclusion ==
    (/\ ~stale_removed
     /\ lock_file # None => clock - Val(lock_file).mtime <= StaleThreshold)
    => Cardinality({p \in Procs : procs[p].acquired}) <= 1

\* C4: in a run of main nothing after the lock acquisition (authenticating,
\* fetching the list, loading the document, constructing the engine, hence
\* any backend mutation or document write) happens unless acquire returned
\* True earlier in that run; when acquire returned False the run has exited
\* with code 1 and has done none of these.
C4_NothingWithoutLock ==
    \A p \in Procs :
        procs[p].kind = "main" =>
            /\ procs[p].did # {} => procs[p].held
            /\ procs[p].result = Some(FALSE) =>
                 /\ procs[p].pc = "exited"
                 /\ procs[p].exit_code = Some(1)
                 /\ procs[p].did = {}

\* a main that was refused the lock has exited with code 1 while another
\* main, holding the lock, has authenticated
C4_Witness ==
    \E p, q \in Procs :
        /\ procs[p].kind = "main" /\ procs[p].result = Some(FALSE)
        /\ procs[p].pc = "exited" /\ procs[p].exit_code = Some(1)
        /\ procs[q].kind = "main" /\ procs[q].held
        /\ "authenticate" \in procs[q].did

\* C5: a process that has acquired the lock exits only with the lock file
\* removed and its lock released, on every exit path of main (list not
\* found, an exception, KeyboardInterrupt) and when a with block is left,
\* normally or through an exception.
C5_ReleasedOnExit ==
    [][\A p \in Procs :
         (procs[p].pc # "exited" /\ procs'[p].pc = "exited" /\ procs[p].held)
         => (lock_file' = None /\ ~procs'[p].acquired)]_vars

\* a main interrupted by KeyboardInterrupt has exited with code 130 and a
\* with block has been left through an exception, both after holding the
\* lock, and the lock file is gone
C5_Witness ==
    \E p, q \in Procs :
        /\ procs[p].kind = "main" /\ procs[p].held /\ procs[p].pc = "exited"
        /\ procs[p].raised = "KeyboardInterrupt" /\ procs[p].exit_code = Some(130)
        /\ procs[q].kind = "with" /\ procs[q].held /\ procs[q].pc = "exited"
        /\ procs[q].raised = "ValueError"
        /\ lock_file = None

\* C6: with dry_run set, a run makes no backend create_task, update_task or
\* delete_task call, calls no document mutator and no save(), and leaves the
\* line buffer, the file and the remote tasks as they were.
C6_DryRunChangesNothing ==
    dry_run =>
        /\ calls.create_task = 0 /\ calls.update_task = 0 /\ calls.delete_task = 0
        /\ calls.mutators = 0 /\ calls.save = 0
        /\ file = hist.file
        /\ remote = hist.remote
        /\ pc # "idle" => lines = hist.lines

\* a dry run has finished and has reported creates and updates
C6_Witness ==
    /\ dry_run /\ pc = "done"
    /\ total_created > 0 /\ total_updated > 0
    /\ lines = hist.lines /\ file = hist.file

SecondPassOps == {"skip_completed", "update_orgplan", "create_orgplan"}

\* C7: in a non-dry-run run, a remote task created by the first pass for a
\* local task is in the task list of the second pass, the map of the second
\* pass links that local task to it, and the second pass handles it as a
\* match by id with that same local task, adding no task line.
C7_CreatedIsMatchedById ==
    (~dry_run /\ pc \in {"todo_to_orgplan", "done"}) =>
        \A c \in hist.created :
            /\ \E k \in 1..Len(ttasks) : ttasks[k].id = c.id
            /\ omap[c.local].id = Some(c.id)
            /\ (last.op \in SecondPassOps /\ last.remote = c.id) =>
                 /\ last.op = "update_orgplan"
                 /\ last.by = "id"
                 /\ last.local = c.local
                 /\ "add_task" \notin last.called

\* the second pass has just handled a task the first pass created
C7_Witness ==
    /\ ~dry_run /\ pc = "todo_to_orgplan"
    /\ \E c \in hist.created :
        /\ last.op = "update_orgplan" /\ last.remote = c.id /\ last.local = c.local
    /\ Len(parse_tasks(lines)) = Len(hist.orgplan_tasks)

\* what the first pass did with its last task follows id, then title, then
\* create
FirstPassOrder ==
    last.op \in {"update_todo", "create_todo"} =>
        LET link == BackendId(last.task, backend)
        IN IF Truthy(link) /\ \E k \in 1..Len(ttasks) : ttasks[k].id = Val(link)
           THEN last.op = "update_todo" /\ last.item.id = Val(link)
           ELSE IF \E k \in 1..Len(ttasks) : ttasks[k].title = last.task.description
           THEN last.op = "update_todo" /\ last.item.title = last.task.description
           ELSE last.op = "create_todo"

\* what the second pass did with its last remote task, when it did not skip
\* it, follows id, then title, then create
SecondPassOrder ==
    IF \E k \in 1..Len(omap) : omap[k].id = Some(last.item.id)
    THEN last.op = "update_orgplan" /\ omap[last.local].id = Some(last.item.id)
    ELSE IF \E k \in 1..Len(omap) : omap[k].description = last.item.title
    THEN last.op = "update_orgplan" /\ omap[last.local].description = last.item.title
    ELSE last.op = "create_orgplan"

NoFieldDifference(task, item) ==
    /\ task.description = item.title
    /\ item.status = (IF task.status \in {Some("DONE"), Some("DELEGATED"), Some("CANCELED")}
                      THEN "completed" ELSE "active")
    /\ supports_priority(backend) =>
         item.importance = Some(CASE task.priority = Some(1) -> "high"
                                  [] task.priority \in {None, Some(2)} -> "normal"
                                  [] OTHER -> "low")
    /\ task.due_date = item.due_date
    /\ _extract_notes_from_detail_section(task.detail_section)
         = (IF TruthyText(item.body) /\ StripLines(Val(item.body)) # <<>>
            THEN Some(StripLines(Val(item.body))) ELSE None)

\* C9: in the document->remote pass a matched pair with no field difference
\* is counted as skipped, not as updated, and the step makes no
\* backend.update_task call and changes neither the remote tasks nor the
\* document.
C9_NoDifferenceIsSkipped ==
    [][(last'.op = "update_todo" /\ pc = "orgplan_to_todo"
        /\ NoFieldDifference(last'.task, last'.item))
       => /\ last'.ret = FALSE /\ last'.called = {}
          /\ stats'.orgplan_to_todo.skipped = stats.orgplan_to_todo.skipped + 1
          /\ stats'.orgplan_to_todo.updated = stats.orgplan_to_todo.updated
          /\ calls' = calls /\ remote' = remote /\ lines' = lines]_vars

\* the first pass of a non-dry run has skipped a matched pair without
\* differences
C9_Witness ==
    /\ ~dry_run /\ pc = "orgplan_to_todo" /\ last.op = "update_todo"
    /\ NoFieldDifference(last.task, last.item)
    /\ stats.orgplan_to_todo.skipped > 0

\* the summary line of the task of the last step, before and after it
LineBefore == hist.lines[last.task.line_number]
LineAfter == lines[last.task.line_number]

\* C10: in the remote->document direction, for a matched local task with
\* detail_has_deadline_marker and a stored due date, a different remote due
\* date does not change the local due date: update_task_due_date is not
\* called, the task keeps its due date, the due marker of the summary line
\* stays as it was, and the whole line does when nothing else differs.
C10_DetailDeadlineOwnsDueDate ==
    (/\ pc = "unit_done" /\ last.op = "update_orgplan"
     /\ last.task.detail_has_deadline_marker
     /\ Truthy(last.task.due_date)
     /\ Truthy(last.item.due_date)
     /\ last.item.due_date # last.task.due_date)
    => /\ "update_task_due_date" \notin last.called
       /\ last.after.due_date = last.task.due_date
       /\ _extract_due_from_text(Tail(LineAfter)) = _extract_due_from_text(Tail(LineBefore))
       /\ (last.called \cap {"update_task_description", "update_task_status",
                             "update_task_priority"} = {}) => LineAfter = LineBefore

\* a non-dry call for a task whose due date comes from a DEADLINE in its
\* detail section while the remote reports another date
C10_Witness ==
    /\ pc = "unit_done" /\ last.op = "update_orgplan" /\ ~dry_run
    /\ last.task.detail_has_deadline_marker
    /\ Truthy(last.task.due_date) /\ Truthy(last.item.due_date)
    /\ last.item.due_date # last.task.due_date
    /\ last.after.due_date = last.task.due_date
    /\ LineAfter = LineBefore

\* the notes (marker lines left out) of the detail section that the lines ls
\* hold under the header of the description
NotesOf(ls, description) ==
    _extract_notes_from_detail_section(
        StripLines(SectionLines(ls, SectionHeader(description), 1, FALSE)))

\* C11: in the remote->document direction, for a matched local task whose
\* detail section has notes (marker lines left out), whatever the remote body
\* is, update_detail_section_body is not called and the notes of that
\* section of the document stay as they were; hence remote notes are written
\* only when the local notes are empty.
C11_LocalNotesAreKept ==
    (/\ pc = "unit_done" /\ last.op = "update_orgplan"
     /\ _extract_notes_from_detail_section(last.task.detail_section) # None)
    => /\ "update_detail_section_body" \notin last.called
       /\ NotesOf(lines, last.task.description) = NotesOf(hist.lines, last.task.description)
       /\ NotesOf(lines, last.task.description)
            = _extract_notes_from_detail_section(last.task.detail_section)

\* a non-dry call for a task with notes while the remote body holds other
\* notes: the call changed the task (its status) and the notes are the old ones
C11_Witness ==
    /\ pc = "unit_done" /\ last.op = "update_orgplan" /\ ~dry_run
    /\ _extract_notes_from_detail_section(last.task.detail_section) = Some(NotesN)
    /\ last.item.body = Some(NotesM)
    /\ last.ret /\ "update_task_status" \in last.called
    /\ NotesOf(lines, last.task.description) = Some(NotesN)

\* C12: in the remote->document pass a completed remote task that no local
\* task links to and whose title is no local description is counted as
\* skipped and nothing else: the step creates and updates nothing, calls no
\* document mutator and leaves the line buffer as it was (no task line, no
\* detail section).
C12_CompletedUnmatchedIsSkipped ==
    [][(/\ pc = "todo_to_orgplan" /\ pc' = pc /\ idx' = idx + 1
        /\ ttasks[idx].status = "completed"
        /\ \A k \in 1..Len(omap) :
             omap[k].id # Some(ttasks[idx].id) /\ omap[k].description # ttasks[idx].title)
       => /\ last'.op = "skip_completed" /\ last'.remote = ttasks[idx].id
          /\ stats'.todo_to_orgplan
               = [stats.todo_to_orgplan EXCEPT !.skipped = @ + 1]
          /\ last'.called = {} /\ calls' = calls
          /\ lines' = lines /\ otasks' = otasks]_vars

\* the second pass of a non-dry run over a document with tasks has just
\* skipped a completed remote task that matched none of them, and the
\* document has no task line and no section for it
C12_Witness ==
    /\ ~dry_run /\ pc = "todo_to_orgplan" /\ last.op = "skip_completed"
    /\ Len(omap) > 0
    /\ last.item.status = "completed"
    /\ \A k \in 1..Len(omap) :
         omap[k].id # Some(last.item.id) /\ omap[k].description # last.item.title
    /\ stats.todo_to_orgplan.skipped > 0 /\ stats.todo_to_orgplan.created = 0
    /\ Len(parse_tasks(lines)) = Len(omap)
    /\ SectionStart(lines, SectionHeader(last.item.title)) = 0

\* title, mapped status, due date and notes of the pair agree (priority and
\* importance left out)
AgreesButPriority(task, item) ==
    /\ task.description = item.title
    /\ item.status = (IF task.status \in {Some("DONE"), Some("DELEGATED"), Some("CANCELED")}
                      THEN "completed" ELSE "active")
    /\ task.due_date = item.due_date
    /\ _extract_notes_from_detail_section(task.detail_section)
         = (IF TruthyText(item.body) /\ StripLines(Val(item.body)) # <<>>
            THEN Some(StripLines(Val(item.body))) ELSE None)

\* the summary line, in the line buffer, of the task the last step left
LineOfLast == lines[last.after.line_number]

\* C13: with the Google Tasks backend (supports_priority false) the
\* document->remote pass puts no importance entry in an update and skips a
\* pair that differs in priority only, the remote->document pass never calls
\* update_task_priority, leaves the local priority as it is and creates
\* local tasks with priority None, and no remote task gets an importance.
C13_NoPriorityChangeWithoutSupport ==
    backend = "google" =>
        /\ last.op = "update_todo" =>
             /\ "importance" \notin TodoUpdates(last.task, last.item, backend)
             /\ AgreesButPriority(last.task, last.item)
                  => last.ret = FALSE /\ last.called = {}
        /\ last.op = "update_orgplan" =>
             /\ "update_task_priority" \notin last.called
             /\ last.after.priority = last.task.priority
        /\ last.op = "create_orgplan" /\ last.ok =>
             /\ last.after.priority = None
             /\ ~dry_run => ~\E i \in 1..Len(LineOfLast) : IsPriorityTok(LineOfLast[i])
        /\ \A k \in 1..Len(remote) : remote[k].importance = None

\* the first pass over Google Tasks has skipped a pair whose local task has
\* priority 1 while the remote task has no importance
C13_Witness ==
    /\ backend = "google" /\ ~dry_run /\ last.op = "update_todo"
    /\ last.task.priority = Some(1) /\ last.item.importance = None
    /\ AgreesButPriority(last.task, last.item)
    /\ last.ret = FALSE /\ stats.orgplan_to_todo.skipped > 0

\* C14: mapping a priority to an importance gives normal for None, high for
\* 1, normal for 2 and low for every priority >= 3; mapping one of the
\* importances high, normal, low back gives 1, 2, 3 and never None; so a
\* priority in {1, 2, 3} mapped to an importance and back is itself.
C14_PriorityRoundTrip ==
    /\ \A i \in 1..(Len(mapped) - 1) :
        /\ mapped[i].kind = "priority" =>
             mapped[i + 1].val =
                 Some(IF mapped[i].val = None THEN "normal"
                      ELSE CASE Val(mapped[i].val) = 1 -> "high"
                             [] Val(mapped[i].val) = 2 -> "normal"
                             [] Val(mapped[i].val) >= 3 -> "low"
                             [] OTHER -> Val(mapped[i + 1].val))
        /\ mapped[i].kind = "importance" =>
             /\ mapped[i].val = Some("high") => mapped[i + 1].val = Some(1)
             /\ mapped[i].val = Some("normal") => mapped[i + 1].val = Some(2)
             /\ mapped[i].val = Some("low") => mapped[i + 1].val = Some(3)
    /\ \A i \in 1..(Len(mapped) - 2) :
        (mapped[i].kind = "priority" /\ mapped[i].val \in {Some(1), Some(2), Some(3)})
        => mapped[i + 2] = mapped[i]

\* priority 3 has been mapped to low and back to 3, and a priority above 3
\* has been mapped to low and back to 3 too
C14_Witness ==
    /\ Len(mapped) >= 3
    /\ mapped[1].kind = "priority" /\ mapped[1].val \in {Some(3), Some(MaxPriority)}
    /\ mapped[2].val = Some("low")
    /\ mapped[3].val = Some(3)

\* the remote status the document->remote pass wants for the task of the
\* last step
DesiredStatus ==
    IF last.task.status \in {Some("DONE"), Some("DELEGATED"), Some("CANCELED")}
    THEN "completed" ELSE "active"

\* C15: in the document->remote direction the desired remote status is
\* completed for DONE, DELEGATED, CANCELED and active for PENDING and None;
\* when it differs from the remote's status, a successful non-dry update
\* calls update_task and the remote task gets the desired status; when it
\* does not differ the remote status stays, and when nothing else differs
\* either (a linked CANCELED task whose remote is completed) there is no
\* update_task call.
C15_StatusSentWhenDifferent ==
    (pc = "unit_done" /\ last.op = "update_todo") =>
        /\ ("status" \in TodoUpdates(last.task, last.item, backend))
             <=> (DesiredStatus # last.item.status)
        /\ (DesiredStatus # last.item.status) =>
             /\ last.ret = (dry_run \/ last.ok)
             /\ (~dry_run /\ last.ok) =>
                  "update_task" \in last.called /\ remote[1].status = DesiredStatus
             /\ (dry_run \/ ~last.ok) => remote = hist.remote
        /\ (DesiredStatus = last.item.status) =>
             /\ remote[1].status = last.item.status
             /\ NoFieldDifference(last.task, last.item) =>
                  last.ret = FALSE /\ last.called = {} /\ remote = hist.remote

\* a non-dry call for a linked CANCELED task whose remote task is completed
\* and agrees in every other field: nothing was sent
C15_Witness ==
    /\ pc = "unit_done" /\ last.op = "update_todo" /\ ~dry_run /\ last.ok
    /\ last.task.status = Some("CANCELED") /\ last.item.status = "completed"
    /\ Truthy(BackendId(last.task, backend))
    /\ NoFieldDifference(last.task, last.item)
    /\ last.ret = FALSE /\ last.called = {}

\* C16: in the document->remote pass of a non-dry run, after a successful
\* create_task, and after a successful update_task on a pair matched by
\* title only, parsing the document again gives the local task the id of the
\* remote task as its backend id.
C16_LinkWrittenAfterCreateOrUpdate ==
    (/\ ~dry_run /\ pc = "orgplan_to_todo"
     /\ last.op \in {"create_todo", "update_todo"} /\ last.ok
     /\ \/ "create_task" \in last.called
        \/ "update_task" \in last.called /\ last.by = "title")
    => BackendId(parse_tasks(lines)[last.local], backend) = Some(last.remote)


\* C17: a task whose processing fails (the backend raising on create_task or
\* update_task in the first pass, a parser method raising in the second) does
\* not end its pass: once a pass of a run is over, every task the pass was
\* given has been handled, and the run goes on to the statistics of both
\* passes.
C17_FailureDoesNotAbortPass ==
    /\ pc \in {"todo_to_orgplan", "done"} =>
         \A k \in 1..Len(hist.orgplan_tasks) : <<1, k>> \in hist.handled
    /\ pc = "done" =>
         /\ \A k \in 1..Len(ttasks) : <<2, k>> \in hist.handled
         /\ stats.todo_to_orgplan.errors <= hist.failures

\* the first pass of a first run is over; the backend failed on the first of
\* two local tasks and the second one was created after it
C17_Witness ==
    /\ pc = "todo_to_orgplan" /\ idx = 1 /\ run = 1 /\ ~dry_run
    /\ hist.failures = 1
    /\ Len(hist.orgplan_tasks) = 2
    /\ \E c \in hist.created : c.local = 2
    /\ stats.orgplan_to_todo.created = 1


\* C18: every task whose backend create or update, or whose document change,
\* failed during a pass is counted in the errors of that pass: when the first
\* run is over after a failure, total_errors is above zero.
C18_FailuresAreCounted ==
    (pc = "done" /\ run = 1 /\ hist.failures > 0) => total_errors > 0


\* C19: when get_list_by_name finds no list (main then lists the available
\* ones and calls sys.exit(1)), main neither loads the document nor creates
\* the engine that runs the passes, and once it has exited its exit code is 1.
C19_MissingListIsFatal ==
    \A p \in Procs :
        "get_task_lists" \in procs[p].did =>
            /\ procs[p].did \cap {"load", "SyncEngine"} = {}
            /\ procs[p].pc \in {"release", "release_unlink", "exited"}
            /\ procs[p].pc = "exited" => procs[p].exit_code = Some(1)

\* a main that held the lock found no list and has exited with code 1, the
\* lock file removed
C19_Witness ==
    \E p \in Procs :
        /\ procs[p].kind = "main" /\ procs[p].pc = "exited"
        /\ "get_task_lists" \in procs[p].did
        /\ procs[p].raised = "SystemExit"
        /\ procs[p].exit_code = Some(1)


\* C20: a run that is not a dry run writes the document once, when both passes
\* are over: no save before the second pass has ended, one save at the end of
\* the run.
C20_SavedOnceAtTheEnd ==
    ~dry_run =>
        /\ pc \in {"orgplan_to_todo", "todo_to_orgplan"} => calls.save = 0
        /\ pc = "done" => calls.save = 1


\* C21: in a call that goes through retry_on_failure, a request answered with
\* a client error other than 429 is the last one made: the loop neither
\* sleeps nor calls again after it.
C21_NonTransientNotRetried ==
    request.retry =>
        \A k \in 1..Len(request.responses) :
            (/\ _do_request(request.responses[k], k).raises
             /\ ~Transient(request.responses[k]))
            => /\ k = Len(request.responses)
               /\ request.pc \in {"exhausted", "raised"}

\* what the call has come to when it is over
RequestOutcome(k) == _do_request(request.responses[k], k)

\* C22: retry_on_failure invokes the function at most max_retries + 1 times and
\* comes to an end; it returns the value of the first invocation that did not
\* raise, and when all max_retries + 1 invocations raised it raises the
\* exception object of the last one.
C22_RetryEndsWithFirstValueOrLastError ==
    /\ [](request.retry =>
            /\ Len(request.responses) <= request.max_retries + 1
            /\ \A k \in 1..(Len(request.responses) - 1) : RequestOutcome(k).raises
            /\ request.pc = "returned" =>
                 /\ ~RequestOutcome(Len(request.responses)).raises
                 /\ request.returned = Some(RequestOutcome(Len(request.responses)))
            /\ request.pc = "raised" =>
                 /\ Len(request.responses) = request.max_retries + 1
                 /\ RequestOutcome(Len(request.responses)).raises
                 /\ request.raised = Some(RequestOutcome(Len(request.responses))))
    /\ <>(request.pc \in {"returned", "raised"})

\* four invocations with max_retries = 3 all failed, the first on the network
\* and the last with a client error, and the last one's exception was raised
C22_Witness ==
    /\ request.retry /\ request.max_retries = 3 /\ request.pc = "raised"
    /\ Len(request.responses) = 4
    /\ request.responses[1].failure = "Timeout"
    /\ request.responses[4].status_code = 404
    /\ Val(request.raised).call = 4 /\ Val(request.raised).cls = "APIError"
    /\ request.slept = 7


\* C23: acquire(timeout=0) that finds a lock file not older than
\* stale_threshold returns False from that very check: the lock file stays as
\* it is, the caller neither holds the lock nor sleeps nor removes or writes
\* anything; an acquire that finds no lock file (the holder has released)
\* writes the file and returns True.
C23_HeldLockRefusesAtOnce ==
    [][\A p \in Procs :
         /\ (/\ procs[p].pc = "stat" /\ procs'[p].pc # "stat"
             /\ procs[p].timeout = 0
             /\ lock_file # None
             /\ clock - Val(lock_file).mtime <= StaleThreshold)
            => /\ procs'[p].result = Some(FALSE)
               /\ lock_file' = lock_file
               /\ ~procs'[p].acquired /\ ~procs'[p].held
               /\ procs'[p].pc \notin {"sleep", "unlink", "write"}
         /\ (procs[p].pc = "exists" /\ procs'[p].pc # "exists" /\ lock_file = None)
            => procs'[p].pc = "write"
         /\ (procs[p].pc = "write" /\ procs'[p].pc # "write")
            => /\ procs'[p].result = Some(TRUE)
               /\ procs'[p].acquired
               /\ lock_file' # None /\ Val(lock_file').pid = p]_vars

\* a caller was refused while another process held the lock, that process
\* has released, and the caller's second acquire returned True
C23_Witness ==
    \E p, q \in Procs :
        /\ p # q /\ ~stale_removed
        /\ procs[p].kind = "caller" /\ procs[p].timeout = 0
        /\ procs[p].results = <<FALSE, TRUE>> /\ procs[p].acquired
        /\ procs[q].results = <<TRUE>> /\ ~procs[q].acquired
        /\ lock_file # None /\ Val(lock_file).pid = p


\* C24: an acquire that finds the lock file older than stale_threshold goes on
\* to remove it; the file it removes is older than stale_threshold (a younger
\* one is never removed by an acquire), and having removed it the acquire
\* writes its own lock and returns True.
C24_OnlyStaleLockIsRemoved ==
    [][\A p \in Procs :
         /\ (/\ procs[p].pc = "stat" /\ procs'[p].pc # "stat"
             /\ lock_file # None
             /\ clock - Val(lock_file).mtime > StaleThreshold)
            => procs'[p].pc = "unlink"
         /\ (procs[p].pc = "unlink" /\ procs'[p].pc # "unlink")
            => /\ lock_file # None
               /\ clock - Val(lock_file).mtime > StaleThreshold
               /\ lock_file' = None
               /\ procs'[p].pc = "write"
         /\ (procs[p].pc = "write" /\ procs'[p].pc # "write")
            => procs'[p].result = Some(TRUE)]_vars


\* the processes inside acquire
Acquiring == {"exists", "stat", "unlink", "sleep", "write"}

ParserUpdates == {"update_task_status", "update_task_priority", "update_task_description",
                  "update_task_due_date"}

\* the fields of a task that a re-parse can tell apart
TaskFields(t) ==
    [status |-> t.status, priority |-> t.priority, description |-> t.description,
     due_date |-> t.due_date, due_marker_style |-> t.due_marker_style,
     detail_section |-> t.detail_section, ms_todo_id |-> t.ms_todo_id,
     google_tasks_id |-> t.google_tasks_id]

\* the fields of task t with the one field that the call op(task, value, style) sets
WithNewValue(t, op, value, style) ==
    CASE op = "update_task_status" -> [TaskFields(t) EXCEPT !.status = value]
      [] op = "update_task_priority" -> [TaskFields(t) EXCEPT !.priority = value]
      [] op = "update_task_description" -> [TaskFields(t) EXCEPT !.description = value]
      [] op = "update_task_due_date" ->
            [TaskFields(t) EXCEPT !.due_date = value,
                                  !.due_marker_style = IF Truthy(value) THEN style ELSE None]

\* C26: after a single-field update of a parsed task, parsing the lines again
\* yields, in the task's place, a task with the new value of that field and with
\* every other field (status, priority, description, due date, marker style,
\* detail section, backend ids) as it was parsed before the update.
C26_RoundTripStable ==
    (pc = "parser_done" /\ last.op \in ParserUpdates /\ ~last.stale) =>
        /\ Len(parse_tasks(lines)) = Len(hist.orgplan_tasks)
        /\ TaskFields(parse_tasks(lines)[last.local])
             = WithNewValue(last.task, last.op, last.value, last.style)

\* the update returns without a change (line_idx >= len(self.lines)) exactly
\* when the task's line_number is past the end
PastTheEnd(task, ls) == task.line_number > Len(ls)

\* C27: each of the four update_task_* methods leaves the number of lines
\* and every line other than the one at the task's line_number as they
\* were, writes the reformatted summary line at line_number, and changes
\* nothing at all when line_number is past the end of the lines.
C27_OnlyTheTaskLineIsRewritten ==
    (pc = "parser_done" /\ last.op \in ParserUpdates) =>
        /\ Len(lines) = Len(hist.lines)
        /\ \A i \in 1..Len(lines) : i # last.task.line_number => lines[i] = hist.lines[i]
        /\ PastTheEnd(last.task, hist.lines) => lines = hist.lines /\ last.after = last.task
        /\ ~PastTheEnd(last.task, hist.lines) =>
               lines[last.task.line_number] = _format_task_line(last.after)

\* an update has rewritten the summary line of a document that has other
\* lines before and after it
C27_Witness ==
    /\ pc = "parser_done"
    /\ last.op = "update_task_due_date"
    /\ ~PastTheEnd(last.task, hist.lines)
    /\ Len(lines) > 4
    /\ lines # hist.lines

OtherAttr(attr) == IF attr = "ms_todo_id" THEN "google_tasks_id" ELSE "ms_todo_id"

IdOf(task, attr) == IF attr = "ms_todo_id" THEN task.ms_todo_id ELSE task.google_tasks_id

RemoveAt(s, i) == SubSeq(s, 1, i - 1) \o SubSeq(s, i + 1, Len(s))

\* the lines of a detail section that are no marker lines
NonMarkerLines(section) == SelectSeq(section, NotMarkerLine)

\* C28: add_detail_section with the id of one backend, on a section that
\* holds the marker of the other backend, inserts the new marker as one line
\* inside the section and leaves every line that was there (the other
\* marker, the notes) as it was and in order; when the section already holds
\* a marker of the same backend only that line is replaced; parsing the lines
\* afterwards gives the task both ids, the new one and the other one as before.
C28_OtherMarkerUndisturbed ==
    (/\ pc = "parser_done"
     /\ last.op = "add_detail_section"
     /\ Truthy(IdOf(last.task, OtherAttr(Val(last.style))))) =>
        LET attr == Val(last.style)
            marker == IdMarker(attr, Val(last.value))
            at == FindMarkerLine(hist.lines,
                                 SectionStart(hist.lines,
                                              SectionHeader(last.task.description)) + 1,
                                 attr)
            Parsed(t) ==
                /\ IdOf(t, attr) = last.value
                /\ IdOf(t, OtherAttr(attr)) = IdOf(last.task, OtherAttr(attr))
                /\ NonMarkerLines(t.detail_section) = NonMarkerLines(last.task.detail_section)
                /\ Len(t.detail_section) =
                      Len(last.task.detail_section) + (IF at = 0 THEN 1 ELSE 0)
        IN /\ IF at # 0
              THEN lines = [hist.lines EXCEPT ![at] = marker]
              ELSE \E i \in 1..Len(lines) : lines[i] = marker /\ RemoveAt(lines, i) = hist.lines
           /\ Len(parse_tasks(lines)) = Len(hist.orgplan_tasks)
           /\ Parsed(parse_tasks(lines)[last.local])
           /\ IdOf(last.after, attr) = last.value

\* a google id was added to a section that held a microsoft marker and notes
C28_Witness ==
    /\ pc = "parser_done"
    /\ last.op = "add_detail_section"
    /\ last.style = Some("google_tasks_id")
    /\ last.task.ms_todo_id = Some("r1")
    /\ last.task.google_tasks_id = None
    /\ NonMarkerLines(last.task.detail_section) # <<>>
    /\ parse_tasks(lines)[last.local].google_tasks_id = Some("n7")
    /\ parse_tasks(lines)[last.local].ms_todo_id = Some("r1")

\* 1-based index of the "# TODO List" heading, 0 when there is none
TodoHeadingAt(ls) == SectionStart(ls, TodoHeading)

\* the task lines of the TODO List section that starts at line h
SectionTaskLines(ls, h) ==
    {i \in (h + 1)..Len(ls) : /\ IsTaskLine(ls[i])
                              /\ \A j \in (h + 1)..i : ~IsHeading(ls[j])}

\* C29: add_task inserts exactly one line, the formatted task, into the TODO
\* List section: directly after the last task line of the section, or
\* directly after the heading when the section has no task line, and so
\* before the next heading; the other lines keep content and order; parsing
\* again yields the tasks parsed before followed by one task with the
\* description, status and priority given.
C29_AddTaskAppendsToTodoList ==
    (pc = "parser_done" /\ last.op = "add_task") =>
        LET h == TodoHeadingAt(hist.lines)
            tl == SectionTaskLines(hist.lines, h)
            p == last.after.line_number
            Added(tasks, n) ==
                /\ Len(tasks) = n + 1
                /\ \A k \in 1..n : tasks[k] = hist.orgplan_tasks[k]
                /\ tasks[n + 1].description = last.value.description
                /\ tasks[n + 1].status = last.value.status
                /\ tasks[n + 1].priority = last.value.priority
                /\ tasks[n + 1].line_number = p
        IN /\ h > 0
           /\ Len(lines) = Len(hist.lines) + 1
           /\ lines[p] = _format_task_line(last.after)
           /\ RemoveAt(lines, p) = hist.lines
           /\ p - 1 = (IF tl = {} THEN h ELSE CHOOSE i \in tl : \A j \in tl : j <= i)
           /\ \A j \in (h + 1)..p : ~IsHeading(lines[j])
           /\ Added(parse_tasks(lines), Len(hist.orgplan_tasks))

\* a task was added to a TODO List section that had tasks and is followed by
\* a detail section
C29_Witness ==
    /\ pc = "parser_done"
    /\ last.op = "add_task"
    /\ Len(hist.orgplan_tasks) = 2
    /\ last.value.status = Some("PENDING")
    /\ last.value.priority = Some(1)
    /\ last.after.line_number < Len(lines)
    /\ Len(parse_tasks(lines)) = 3

\* the due date of parsed task t was taken from a DEADLINE:/SCHEDULED:
\* expression of its detail section: its summary line gave none and the
\* section holds such an expression with a date
DueFromDetailMarker(ls, t) ==
    LET on_line == _parse_task_line(ls[t.line_number], t.line_number)[1].due_date
        ts == _parse_timestamps(Flatten(t.detail_section))
    IN on_line = None /\ (ts.deadlines # <<>> \/ ts.scheduled # <<>>)

\* C30: for every task that parsing yields, detail_has_deadline_marker is
\* true exactly when its due date was taken from a DEADLINE:/SCHEDULED:
\* expression in its detail section; it is false when the date came from the
\* summary line (whatever the section holds) or from a bare timestamp.
C30_FlagTellsWhereTheDueDateCameFrom ==
    \A k \in 1..Len(parse_tasks(lines)) :
        parse_tasks(lines)[k].detail_has_deadline_marker
            = DueFromDetailMarker(lines, parse_tasks(lines)[k])

\* the four status keywords of the document grammar
DocumentStatusKeywords == {"DONE", "PENDING", "DELEGATED", "CANCELED"}

\* the keywords whose bracketed form stands on the line
KeywordsOn(line) ==
    {k \in DocumentStatusKeywords : \E j \in 1..Len(line) : line[j] = StatusToken(k)}

\* C31: a task line that carries a bracketed status keyword (DONE, PENDING,
\* DELEGATED or CANCELED) parses to a task with that status and without the
\* bracketed keyword in its description; a task line without a status
\* keyword parses to a task with status None.
C31_StatusKeywordIsParsed ==
    \A i \in 1..Len(lines) :
        IsTaskLine(lines[i]) =>
            LET Parsed(t) ==
                    /\ KeywordsOn(lines[i]) = {} => t.status = None
                    /\ \A k \in KeywordsOn(lines[i]) :
                          /\ t.status = Some(k)
                          /\ \A j \in 1..Len(t.description) :
                                t.description[j] # StatusToken(k)
            IN \A n \in 1..Len(_parse_task_line(lines[i], i)) :
                   Parsed(_parse_task_line(lines[i], i)[n])

\* the TaskItem the last call of _update_todo_task made for backend.update_task
SentByLast == UpdatedTaskItem(last.task, last.item, TodoUpdates(last.task, last.item, backend))

\* C32: in the document->remote direction the updates hold a due date
\* exactly when the local task has one that differs from the remote's; then
\* the TaskItem handed to backend.update_task carries the local due date
\* (and Google Tasks, which stores due dates, holds it afterwards); when the
\* local task has no due date the TaskItem carries the remote's due date and
\* the remote due date is what it was.
C32_LocalDueDateIsSent ==
    (pc = "unit_done" /\ last.op = "update_todo") =>
        /\ ("due_date" \in TodoUpdates(last.task, last.item, backend))
             <=> (Truthy(last.task.due_date) /\ last.task.due_date # last.item.due_date)
        /\ (Truthy(last.task.due_date) /\ last.task.due_date # last.item.due_date) =>
             /\ SentByLast.due_date = last.task.due_date
             /\ last.ret = (dry_run \/ last.ok)
             /\ (~dry_run /\ last.ok) =>
                  /\ "update_task" \in last.called
                  /\ backend = "google" => remote[1].due_date = last.task.due_date
             /\ (dry_run \/ ~last.ok) => remote = hist.remote
        /\ ~Truthy(last.task.due_date) =>
             /\ SentByLast.due_date = last.item.due_date
             /\ remote[1].due_date = hist.remote[1].due_date

\* a non-dry call over Google Tasks for a local task due on date 2 whose
\* remote task was due on date 1: the remote task is now due on date 2
C32_Witness ==
    /\ pc = "unit_done" /\ last.op = "update_todo" /\ ~dry_run /\ last.ok
    /\ backend = "google"
    /\ last.task.due_date = Some(2) /\ last.item.due_date = Some(1)
    /\ hist.remote[1].due_date = Some(1)
    /\ remote[1].due_date = Some(2)

\* the step of the remote->document pass that has just created a local task
\* for remote task last'.item and returned
CreatedLocal ==
    /\ pc = "todo_to_orgplan" /\ pc' = "todo_to_orgplan"
    /\ last'.op = "create_orgplan" /\ last'.ok
    /\ ~dry_run

\* the body of a remote task as _create_orgplan_task writes it: stripped,
\* None when there is nothing to write
BodyNotes(todo_task) ==
    IF TruthyText(todo_task.body) /\ StripLines(Val(todo_task.body)) # <<>>
    THEN Some(StripLines(Val(todo_task.body))) ELSE None

C34_LineAnchorsStayValid ==
    pc = "anchor" =>
        \A k \in 1..Len(otasks) :
            /\ otasks[k].line_number <= Len(lines)
            /\ lines[otasks[k].line_number] = otasks[k].raw_line

\* C35: a release() removes only a lock file that its own process wrote:
\* it never removes the lock file another process wrote after taking over
\* the lock as stale, and the release() of a SyncLock whose acquire failed
\* (acquired is False) leaves the lock file alone.
C35_ReleaseRemovesOwnLockOnly ==
    [][\A p \in Procs :
         (/\ procs[p].pc \in {"release", "release_unlink"}
          /\ procs'[p] # procs[p]) =>
            /\ lock_file' # lock_file =>
                 /\ lock_file # None
                 /\ Val(lock_file).pid = p
            /\ ~procs[p].acquired => lock_file' = lock_file]_vars


\* C36: in the remote->document direction a linked local task whose status
\* already maps, under _map_orgplan_status_to_todo, to the remote task's
\* status keeps its status: PENDING stays PENDING when the remote is active,
\* DELEGATED stays DELEGATED when the remote is completed, on the task
\* object and in the status keyword of its summary line.
C36_AgreeingStatusIsKept ==
    (/\ pc = "unit_done" /\ last.op = "update_orgplan"
     /\ Truthy(BackendId(last.task, backend))
     /\ last.task.status \in {Some("PENDING"), Some("DELEGATED")}
     /\ _map_orgplan_status_to_todo(last.task.status) = last.item.status) =>
        /\ last.after.status = last.task.status
        /\ StatusToken(Val(last.task.status)) \in
             {lines[last.after.line_number][i] :
                i \in 1..Len(lines[last.after.line_number])}


\* the task that parsing the current document yields for the summary line
\* of the task of the last step
ReparsedLast ==
    LET tasks == parse_tasks(lines)
    IN tasks[CHOOSE k \in 1..Len(tasks) : tasks[k].line_number = last.after.line_number]

\* C37: after the remote->document pass has written the remote title into
\* the description of a linked local task, parsing the document again
\* yields the same backend id and the same notes for that task.
C37_LinkSurvivesTitleChange ==
    (/\ pc = "todo_to_orgplan" /\ last.op = "update_orgplan" /\ last.ok
     /\ "update_task_description" \in last.called
     /\ Truthy(BackendId(last.task, backend))) =>
        /\ BackendId(ReparsedLast, backend) = BackendId(last.task, backend)
        /\ _extract_notes_from_detail_section(ReparsedLast.detail_section)
             = _extract_notes_from_detail_section(last.task.detail_section)


\* the remote tasks the run started with that pre-run local task k is
\* linked to, with a title that differs from its description
TitleConflicts(k) ==
    {m \in 1..Len(hist.todo_tasks) :
        /\ BackendId(hist.orgplan_tasks[k], backend) = Some(hist.todo_tasks[m].id)
        /\ hist.todo_tasks[m].title # hist.orgplan_tasks[k].description}

\* the description of pre-run local task k in the document as it is now
DescriptionNow(k) == parse_tasks(lines)[k].description

\* C38: for a linked pair whose titles differ at the start of a non-dry-run
\* run: when no call of the run failed, both sides end the run with the
\* pre-run local description; and, failed calls or not, the document's
\* description of the linked task is never replaced by the remote title.
C38_LocalTitleWins ==
    ~dry_run =>
        \A k \in 1..Len(hist.orgplan_tasks) : \A m \in TitleConflicts(k) :
            /\ (pc = "done" /\ hist.failures = 0) =>
                  /\ remote[m].title = hist.orgplan_tasks[k].description
                  /\ DescriptionNow(k) = hist.orgplan_tasks[k].description
            /\ pc \in {"orgplan_to_todo", "todo_to_orgplan", "done"} =>
                  DescriptionNow(k) = hist.orgplan_tasks[k].description


\* the remote task the first pass matches pre-run local task k to (0 when
\* none), when that local task has no notes and the remote body has text
NotesOnlyRemote(k) ==
    LET m == _find_matching_todo_task(hist.orgplan_tasks[k], hist.todo_tasks, backend)
    IN IF /\ m # 0
          /\ _extract_notes_from_detail_section(hist.orgplan_tasks[k].detail_section) = None
          /\ TruthyText(hist.todo_tasks[m].body)
          /\ StripLines(Val(hist.todo_tasks[m].body)) # <<>>
       THEN m ELSE 0

\* C39: at the end of a non-dry-run run in which no call failed, for a
\* matched pair whose local detail section had no notes and whose remote
\* body had text at the start, that text is the notes of the local task's
\* detail section (and so is present on at least one side).
C39_RemoteNotesReachTheDocument ==
    (pc = "done" /\ ~dry_run /\ hist.failures = 0) =>
        \A k \in 1..Len(hist.orgplan_tasks) :
            NotesOnlyRemote(k) # 0 =>
                LET body == StripLines(Val(hist.todo_tasks[NotesOnlyRemote(k)].body))
                IN /\ \/ NotesOf(lines, DescriptionNow(k)) = Some(body)
                      \/ remote[NotesOnlyRemote(k)].body = Some(body)
                   /\ NotesOf(lines, DescriptionNow(k)) = Some(body)


\* local task t of the document and remote task r agree in title, status
\* and (when the backend has priorities) priority
PairAgrees(t, r) ==
    /\ t.description = r.title
    /\ _map_orgplan_status_to_todo(t.status) = r.status
    /\ supports_priority(backend) =>
         Some(_map_priority_to_importance(t.priority)) = r.importance

\* C40: at the end of a non-dry-run run in which no call failed and no task
\* was counted as an error, every local task of the document and the remote
\* task its link names agree: description equals title, the mapped local
\* status equals the remote status and, when the backend has priorities,
\* the mapped local priority equals the remote importance.
C40_LinkedPairsAgreeAfterRun ==
    (pc = "done" /\ ~dry_run /\ hist.failures = 0 /\ total_errors = 0) =>
        LET tasks == parse_tasks(lines)
            items == get_tasks(backend, remote)
        IN \A k \in 1..Len(tasks) : \A m \in 1..Len(items) :
              BackendId(tasks[k], backend) = Some(items[m].id) =>
                  PairAgrees(tasks[k], items[m])

====
